---- MODULE Spec2Model ----
(***************************************************************************)
(* Order creation, pricing, order status, line-item mutation and print     *)
(* dispatch of the Wireless Ordering System backend (routes/orders.py,     *)
(* routes/printers.py, models.py).                                         *)
(*                                                                         *)
(* Money is counted in units of 1/100 cent, so that a Numeric(10, 2)       *)
(* column (whole cents) is a multiple of Scale and a request may carry a   *)
(* price with a fraction of a cent.  Python values that the handlers test  *)
(* for truth or type are tagged records [t |-> type, v |-> value].         *)
(***************************************************************************)
EXTENDS Integers, Sequences, FiniteSets, TLC

\* ------------------------------------------------------------- bounds
MaxOrders == 1
MaxLines == 2
MaxPrinters == 3
MaxWorkers == 2
MaxAssignments == 3

\* ------------------------------------------------------------- constants
Scale == 100
TaxRatePercent == 10
ReadyOffset == 30
DefaultLocationId == 1
LockThreshold == 5
LockMinutes == 30

\* ------------------------------------------------------------- Python values
NoneV == [t |-> "None", v |-> 0]
EmptyStr == [t |-> "str", v |-> -1]
PyInt(n) == [t |-> "int", v |-> n]
PyFloat(n) == [t |-> "float", v |-> n]
PyDec(n) == [t |-> "Decimal", v |-> n]
PyStr(n) == [t |-> "str", v |-> n]
TypeError == [t |-> "TypeError", v |-> 0]

IsError(x) == x.t = "TypeError"

\* bool(x): None, zero of any numeric type and the empty string are false
Truthy(x) ==
    CASE x.t = "None" -> FALSE
      [] x.t \in {"int", "float", "Decimal"} -> x.v # 0
      [] x.t = "str" -> x.v # -1
      [] OTHER -> FALSE

\* a or b
PyOr(a, b) == IF Truthy(a) THEN a ELSE b

\* float(x) of a number or a numeric string
ToFloat(x) == IF x.t \in {"int", "float", "Decimal"} \/ (x.t = "str" /\ x.v # -1)
              THEN PyFloat(x.v) ELSE TypeError

\* int(x)
ToInt(x) == IF x.t \in {"int", "float", "Decimal"} \/ (x.t = "str" /\ x.v # -1)
            THEN PyInt(x.v) ELSE TypeError

\* a * b for a price a and a quantity b; a + b for two amounts.
\* Decimal and float do not mix: the operation raises TypeError.
NumType(a, b) ==
    IF IsError(a) \/ IsError(b) THEN "TypeError"
    ELSE IF {a.t, b.t} = {"Decimal", "float"} THEN "TypeError"
    ELSE IF "Decimal" \in {a.t, b.t} THEN "Decimal"
    ELSE IF "float" \in {a.t, b.t} THEN "float"
    ELSE "int"

Mul(a, b) == IF NumType(a, b) = "TypeError" THEN TypeError
             ELSE [t |-> NumType(a, b), v |-> a.v * b.v]

Add(a, b) == IF NumType(a, b) = "TypeError" THEN TypeError
             ELSE [t |-> NumType(a, b), v |-> a.v + b.v]

Sub(a, b) == IF NumType(a, b) = "TypeError" THEN TypeError
             ELSE [t |-> NumType(a, b), v |-> a.v - b.v]

\* faulty variant: a Decimal is converted before it is multiplied by the rate
TimesRate_Coerces(x, pct) == PyFloat((x.v * pct) \div 100)

\* x * 0.10, the tax of an amount: the rate is a float literal
TimesRate(x, pct) == IF NumType(x, PyFloat(pct)) = "TypeError" THEN TypeError
                     ELSE PyFloat((x.v * pct) \div 100)

\* A value written to a Numeric(10, 2) column and read back: rounded to cents
Quantize(x) == PyDec(((x.v + (Scale \div 2)) \div Scale) * Scale)

\* ------------------------------------------------------------- reference data
\* users: id -> role and assigned location (0 is NULL)
Users ==
    [u \in 1..4 |->
        CASE u = 1 -> [role |-> "waiter", location_id |-> 2]
          [] u = 2 -> [role |-> "waiter", location_id |-> 1]
          [] u = 3 -> [role |-> "admin", location_id |-> 0]
          [] u = 4 -> [role |-> "manager", location_id |-> 1]]

\* locations: id -> name
Locations == <<"shop", "beach_bar">>

\* tables: the ids of the rows of the tables table
Tables == {1, 2}

\* menu_items: id -> price tiers, availability flags, printer destination
MenuItems ==
    [m \in 1..7 |->
        CASE m = 1 -> [price |-> PyDec(200), takeaway_price |-> PyDec(100),
                       beach_bar_price |-> PyDec(300), is_available |-> TRUE,
                       is_available_takeaway |-> TRUE, is_takeaway_only |-> FALSE,
                       printer_destination |-> "kitchen"]
          [] m = 2 -> [price |-> PyDec(200), takeaway_price |-> NoneV,
                       beach_bar_price |-> NoneV, is_available |-> TRUE,
                       is_available_takeaway |-> TRUE, is_takeaway_only |-> FALSE,
                       printer_destination |-> "bar"]
          [] m = 3 -> [price |-> PyDec(200), takeaway_price |-> PyDec(0),
                       beach_bar_price |-> PyDec(0), is_available |-> TRUE,
                       is_available_takeaway |-> TRUE, is_takeaway_only |-> FALSE,
                       printer_destination |-> "pastry"]
          [] m = 4 -> [price |-> PyDec(200), takeaway_price |-> NoneV,
                       beach_bar_price |-> NoneV, is_available |-> TRUE,
                       is_available_takeaway |-> FALSE, is_takeaway_only |-> FALSE,
                       printer_destination |-> "bar"]
          [] m = 5 -> [price |-> PyDec(200), takeaway_price |-> PyDec(100),
                       beach_bar_price |-> NoneV, is_available |-> FALSE,
                       is_available_takeaway |-> FALSE, is_takeaway_only |-> TRUE,
                       printer_destination |-> "kitchen"]
          [] m = 6 -> [price |-> PyDec(200), takeaway_price |-> NoneV,
                       beach_bar_price |-> NoneV, is_available |-> TRUE,
                       is_available_takeaway |-> TRUE, is_takeaway_only |-> TRUE,
                       printer_destination |-> "kitchen"]
          [] m = 7 -> [price |-> PyDec(200), takeaway_price |-> NoneV,
                       beach_bar_price |-> NoneV, is_available |-> FALSE,
                       is_available_takeaway |-> TRUE, is_takeaway_only |-> FALSE,
                       printer_destination |-> "bar"]]

\* the identity a token carries: login issues str(user.id)
Identity(u) == PyStr(u)


\* ------------------------------------------------------------- state
VARIABLES
    orders,        \* committed rows of the orders table, in id order
    order_items,   \* committed rows of the order_items table
    printers,      \* committed rows of the printer_configs table
    cur,           \* the request being handled, or the last one handled
    sessions,      \* the requests of a burst handled at the same time, per worker
    locations,     \* names of the rows of the locations table, by id
    table_assignments,  \* committed rows of the table_assignments table
    account,       \* the lockout columns of the user who logs in
    clock          \* datetime.utcnow() at the last login attempt, in minutes

vars == <<orders, order_items, printers, cur, sessions, locations, table_assignments,
          account, clock>>

\* the tables the order and printer handlers do not write
other_tables == <<locations, table_assignments, account, clock>>

Absent == "<absent>"

\* NULL in a name column and in a DateTime column
NoName == "<null>"
NoTime == 0

\* datetime.utcnow(), in minutes: the times at which requests are handled
Clock == {1, 2}

NoRow ==
    [id |-> 0, order_number |-> 0, table_id |-> 0, user_id |-> 0, order_type |-> "",
     status |-> "",
     location_id |-> 0, subtotal |-> PyDec(0), tax_amount |-> PyDec(0),
     discount_amount |-> PyDec(0), total_amount |-> PyDec(0),
     customer_name |-> NoName, estimated_ready_time |-> NoTime,
     created_at |-> NoTime, updated_at |-> NoTime]

\* one entry of the items list of a create_order body, or the body of add_order_item
Line(menu_item_id, quantity, unit_price) ==
    [menu_item_id |-> menu_item_id, quantity |-> quantity, unit_price |-> unit_price]

NoLine == Line(NoneV, NoneV, NoneV)

NoReq ==
    [ident |-> NoneV, order_type |-> Absent, table_id |-> NoneV, location_id |-> NoneV,
     items |-> <<>>, order_id |-> 0, status |-> Absent, item |-> NoLine, item_id |-> 0,
     has_body |-> TRUE, printer_type |-> Absent, ip_address |-> "", printer_id |-> 0,
     down |-> {}, customer_name |-> Absent, now |-> 1, elapsed |-> 0,
     is_active |-> Absent, name |-> Absent, password_ok |-> FALSE,
     user_id |-> NoneV, assignment_id |-> 0]

Idle ==
    [op |-> "none", pc |-> "idle", req |-> NoReq, code |-> 0, err |-> "",
     order |-> NoRow, lines |-> <<>>, i |-> 0, total_amount |-> PyInt(0),
     location_name |-> "", old_status |-> "", events |-> <<>>, results |-> <<>>,
     named |-> 0]

\* The response of a handler that returns without committing: the session is
\* removed when the request ends, so whatever it flushed is rolled back.
Respond(c, code, err) ==
    [c EXCEPT !.pc = "done", !.code = code, !.err = err, !.order = NoRow,
              !.lines = <<>>, !.total_amount = PyInt(0), !.location_name = ""]

\* ------------------------------------------------------------- the session
\* faulty variant: the flush commits
AfterFlush_Commits(table, rows) == table \o rows

\* The committed table after db.session.flush() of a new row: the INSERT is
\* inside the open transaction, other sessions do not see it.
AfterFlush(table, rows) == table

\* The committed table after a return without commit, or db.session.rollback()
AfterRollback(table, rows) == table

\* The committed table after db.session.commit()
AfterCommit(table, rows) == table \o rows

NextOrderId == Len(orders) + 1

\* faulty variant: the order_number column has no unique index
NumberTaken_Never(order_number, rows) == FALSE

\* the unique index on orders.order_number: some row holds the number
NumberTaken(order_number, rows) ==
    \E k \in 1..Len(rows) : rows[k].order_number = order_number

RECURSIVE MaxId(_)
MaxId(rows) == IF rows = <<>> THEN 0
               ELSE LET m == MaxId(Tail(rows))
                    IN IF Head(rows).id > m THEN Head(rows).id ELSE m

PersistOrder(o) ==
    [o EXCEPT !.subtotal = Quantize(@), !.tax_amount = Quantize(@),
              !.discount_amount = Quantize(@), !.total_amount = Quantize(@)]

PersistLine(l) == [l EXCEPT !.unit_price = Quantize(@), !.total_price = Quantize(@)]

PersistLines(ls) == [k \in 1..Len(ls) |-> PersistLine(ls[k])]

\* order.items: the committed lines of an order, in id order
ItemsOf(order_id) == SelectSeq(order_items, LAMBDA l : l.order_id = order_id)

\* ------------------------------------------------------------- create_order
\* generate_order_number(): the second of the clock and four random hex
\* digits; two calls can return the same number
OrderNumbers == 1..2

\* faulty variant: the check for a missing or empty items list is dropped
ItemsMissing_Never(items) == FALSE

\* not data.get('items') or len(data['items']) == 0
ItemsMissing(items) == Len(items) = 0

ResolveLocation(req, user, order_type) ==
    IF Truthy(req.location_id)
    THEN IF req.location_id.v \in DOMAIN locations
         THEN [ok |-> TRUE, name |-> locations[req.location_id.v], id |-> req.location_id.v]
         ELSE [ok |-> FALSE, name |-> "", id |-> 0]
    ELSE IF user.location_id # 0 /\ order_type = "dine_in"
         THEN [ok |-> TRUE, name |-> locations[user.location_id], id |-> user.location_id]
         ELSE [ok |-> TRUE, name |-> "shop", id |-> DefaultLocationId]

\* faulty variant: only a missing name is replaced
OrGuest_MissingOnly(customer_name) ==
    IF customer_name = Absent THEN "Guest" ELSE customer_name

\* data.get('customer_name') or 'Guest': a missing key, null and '' are falsy
OrGuest(customer_name) ==
    IF customer_name \in {Absent, NoName, ""} THEN "Guest" ELSE customer_name

\* The order up to its flush.  req.now is the clock when the handler reads it
\* for estimated_ready_time; the column defaults created_at and updated_at
\* read the clock again at the INSERT, req.elapsed later.
create_order_begin(req, new_id, order_number, db_ok) ==
    LET c0 == [Idle EXCEPT !.op = "create_order", !.req = req]
        current_user_id == ToInt(req.ident).v
        order_type == IF req.order_type = Absent THEN "dine_in" ELSE req.order_type
    IN  IF ItemsMissing(req.items)
        THEN Respond(c0, 400, "Order items are required")
        ELSE IF current_user_id \notin DOMAIN Users
        THEN Respond(c0, 401, "User not found")
        ELSE
        LET loc == ResolveLocation(req, Users[current_user_id], order_type)
            table_id == IF order_type \in {"takeaway", "delivery"}
                        THEN NoneV ELSE req.table_id
            estimated_ready_time == IF order_type \in {"takeaway", "delivery"}
                                    THEN req.now + ReadyOffset ELSE NoTime
            customer_name == IF order_type \in {"takeaway", "delivery"}
                             THEN OrGuest(req.customer_name) ELSE NoName
        IN  IF ~loc.ok
            THEN Respond(c0, 400, "Invalid location ID")
            ELSE IF order_type = "dine_in" /\ ~Truthy(req.table_id)
            THEN Respond(c0, 400, "Table ID is required for dine-in orders")
            ELSE IF Truthy(table_id) /\ table_id.v \notin Tables
            THEN Respond(c0, 404, "Table not found")
            ELSE IF NumberTaken(order_number, orders)
            THEN Respond(c0, 500, "IntegrityError")
            ELSE IF ~db_ok
            THEN Respond(c0, 500, "database error")
            ELSE [c0 EXCEPT
                    !.pc = "items",
                    !.order = [NoRow EXCEPT
                                 !.id = new_id,
                                 !.order_number = order_number,
                                 !.table_id = IF Truthy(table_id) THEN table_id.v ELSE 0,
                                 !.user_id = current_user_id,
                                 !.order_type = order_type,
                                 !.status = "pending",
                                 !.location_id = loc.id,
                                 !.customer_name = customer_name,
                                 !.estimated_ready_time = estimated_ready_time,
                                 !.created_at = req.now + req.elapsed,
                                 !.updated_at = req.now + req.elapsed],
                    !.i = 1,
                    !.total_amount = PyInt(0),
                    !.location_name = loc.name]

\* faulty variant: dine-in looks at is_available only
AvailableFor_AvailableOnly(menu_item, order_type) ==
    IF order_type = "takeaway"
    THEN menu_item.is_available_takeaway \/ menu_item.is_takeaway_only
    ELSE menu_item.is_available

\* availability of a menu item for an order type
AvailableFor(menu_item, order_type) ==
    IF order_type = "takeaway"
    THEN menu_item.is_available_takeaway \/ menu_item.is_takeaway_only
    ELSE menu_item.is_available /\ ~menu_item.is_takeaway_only

\* faulty variant: the location is looked at before the order type
ResolvePrice_BeachFirst(menu_item, order_type, location_name) ==
    IF location_name = "beach_bar"
    THEN ToFloat(PyOr(menu_item.beach_bar_price, menu_item.price))
    ELSE IF order_type = "takeaway"
    THEN ToFloat(PyOr(menu_item.takeaway_price, menu_item.price))
    ELSE ToFloat(menu_item.price)

\* faulty variant: the beach-bar tier is forgotten
ResolvePrice_NoBeach(menu_item, order_type, location_name) ==
    IF order_type = "takeaway"
    THEN ToFloat(PyOr(menu_item.takeaway_price, menu_item.price))
    ELSE ToFloat(menu_item.price)

\* the price of a menu item for an order type at a location, before any override
ResolvePrice(menu_item, order_type, location_name) ==
    IF order_type = "takeaway"
    THEN ToFloat(PyOr(menu_item.takeaway_price, menu_item.price))
    ELSE IF location_name = "beach_bar"
    THEN ToFloat(PyOr(menu_item.beach_bar_price, menu_item.price))
    ELSE ToFloat(menu_item.price)

\* the manual price override of a line
ApplyOverride(unit_price, item_data) ==
    IF Truthy(item_data.unit_price) THEN ToFloat(item_data.unit_price) ELSE unit_price

\* one pass of the loop over data['items']
create_order_item(c) ==
    LET item_data == c.req.items[c.i]
        order_type == c.order.order_type
    IN  IF ~Truthy(item_data.menu_item_id) \/ ~Truthy(item_data.quantity)
        THEN Respond(c, 400, "Menu item ID and quantity are required for all items")
        ELSE IF item_data.menu_item_id.v \notin DOMAIN MenuItems
        THEN [Respond(c, 404, "Menu item not found") EXCEPT
                 !.named = item_data.menu_item_id.v]
        ELSE
        LET menu_item == MenuItems[item_data.menu_item_id.v]
        IN  IF ~AvailableFor(menu_item, order_type)
            THEN [Respond(c, 400, IF order_type = "takeaway"
                                  THEN "Menu item is not available for takeaway"
                                  ELSE "Menu item is not available for dine-in")
                  EXCEPT !.named = item_data.menu_item_id.v]
            ELSE
            LET quantity == ToInt(item_data.quantity)
                unit_price == ApplyOverride(
                    ResolvePrice(menu_item, order_type, c.location_name), item_data)
                total_price == Mul(unit_price, quantity)
            IN  IF IsError(total_price)
                THEN Respond(c, 500, "TypeError")
                ELSE [c EXCEPT
                        !.lines = Append(@, [id |-> 0,
                                             order_id |-> c.order.id,
                                             menu_item_id |-> item_data.menu_item_id.v,
                                             quantity |-> quantity.v,
                                             unit_price |-> unit_price,
                                             total_price |-> total_price]),
                        !.total_amount = Add(@, total_price),
                        !.i = @ + 1]

NewOrderEvent(o) ==
    [name |-> "new_order", room |-> "restaurant", order_id |-> o.id, old_status |-> "",
     new_status |-> "", printer |-> 0, total_amount |-> o.total_amount,
     delivered |-> TRUE]

\* emit_socketio_event: socketio.emit is called once; an exception it raises
\* is logged and the event is lost
emit_socketio_event(event, emit_ok) == [event EXCEPT !.delivered = emit_ok]

\* faulty variant: a status change is announced along with the new order
create_order_events_WithStatus(o, emit_ok) ==
    <<emit_socketio_event(NewOrderEvent(o), emit_ok),
      emit_socketio_event([NewOrderEvent(o) EXCEPT !.name = "order_status_changed",
                                                   !.new_status = o.status], emit_ok)>>

\* what create_order emits after its commit
create_order_events(o, emit_ok) == <<emit_socketio_event(NewOrderEvent(o), emit_ok)>>

\* after the loop: totals, commit, the printer simulation and the broadcast.
\* print_ok: the simulation's print() calls and the reads of the committed
\* rows they make go through; they are not inside a try of their own.
create_order_commit(c, first_item_id, db_ok, print_ok, emit_ok) ==
    LET total_amount == c.total_amount
        tax_amount == TimesRate(total_amount, TaxRatePercent)
        new_order == [c.order EXCEPT !.subtotal = total_amount,
                                     !.total_amount = total_amount,
                                     !.tax_amount = tax_amount,
                                     !.discount_amount = PyFloat(0)]
        lines == [k \in 1..Len(c.lines) |->
                    [c.lines[k] EXCEPT !.id = first_item_id + k - 1]]
    IN  IF ~db_ok
        THEN Respond(c, 500, "database error")
        ELSE IF ~print_ok
        THEN [c EXCEPT !.pc = "done", !.code = 500, !.err = "OSError",
                       !.order = PersistOrder(new_order),
                       !.lines = PersistLines(lines)]
        ELSE [c EXCEPT !.pc = "done", !.code = 201, !.err = "",
                       !.order = PersistOrder(new_order),
                       !.lines = PersistLines(lines),
                       !.events = create_order_events(PersistOrder(new_order), emit_ok)]

CreateOrderBegin(req) ==
    /\ cur.pc = "idle"
    /\ Len(orders) < MaxOrders
    /\ \E order_number \in OrderNumbers, db_ok \in BOOLEAN :
          cur' = create_order_begin(req, NextOrderId, order_number, db_ok)
    /\ orders' = IF cur'.pc = "items" THEN AfterFlush(orders, <<cur'.order>>) ELSE orders
    /\ UNCHANGED <<order_items, printers, sessions, other_tables>>

CreateOrderItem ==
    /\ cur.op = "create_order" /\ cur.pc = "items"
    /\ cur.i <= Len(cur.req.items)
    /\ cur' = create_order_item(cur)
    /\ orders' = IF cur'.pc = "done" THEN AfterRollback(orders, <<cur.order>>) ELSE orders
    /\ order_items' = IF cur'.pc = "done"
                      THEN AfterRollback(order_items, cur.lines)
                      ELSE AfterFlush(order_items, cur'.lines)
    /\ UNCHANGED <<printers, sessions, other_tables>>

CreateOrderCommit ==
    /\ cur.op = "create_order" /\ cur.pc = "items"
    /\ cur.i > Len(cur.req.items)
    /\ \E db_ok, print_ok, emit_ok \in BOOLEAN :
          cur' = create_order_commit(cur, MaxId(order_items) + 1, db_ok, print_ok, emit_ok)
    /\ orders' = IF cur'.order # NoRow THEN AfterCommit(orders, <<cur'.order>>)
                 ELSE AfterRollback(orders, <<cur.order>>)
    /\ order_items' = IF cur'.order # NoRow THEN AfterCommit(order_items, cur'.lines)
                      ELSE AfterRollback(order_items, cur.lines)
    /\ UNCHANGED <<printers, sessions, other_tables>>


\* ------------------------------------------------------------- update_order_status
\* faulty variant: 'paid' is taken for a status
valid_statuses_WithPaid ==
    {"pending", "confirmed", "preparing", "ready", "served", "cancelled", "paid"}

valid_statuses == {"pending", "confirmed", "preparing", "ready", "served", "cancelled"}

\* faulty variant: the ownership check is dropped
NotPermitted_Never(role, order_user_id, current_user_id) == FALSE

\* current_user.role == 'waiter' and order.user_id != current_user_id, where
\* current_user_id is the token's identity as issued (a string)
NotPermitted(role, order_user_id, current_user_id) ==
    role = "waiter" /\ PyInt(order_user_id) # current_user_id

\* the falsy values data.get('status') can have: the key is missing, or it is ''
StatusMissing(status) == status \in {Absent, ""}

\* faulty variant: the event carries the new status in both fields
StatusChangedEvent_NewOnly(o, old_status, new_status) ==
    [name |-> "order_status_changed", room |-> "restaurant", order_id |-> o.id,
     old_status |-> new_status, new_status |-> new_status, printer |-> 0,
     total_amount |-> PyDec(0), delivered |-> TRUE]

StatusChangedEvent(o, old_status, new_status) ==
    [name |-> "order_status_changed", room |-> "restaurant", order_id |-> o.id,
     old_status |-> old_status, new_status |-> new_status, printer |-> 0,
     total_amount |-> PyDec(0), delivered |-> TRUE]

\* the handler's outcome: the response and the committed orders table
update_order_status(req, db_ok, emit_ok) ==
    LET c0 == [Idle EXCEPT !.op = "update_order_status", !.req = req]
        current_user_id == req.ident
        current_user == Users[ToInt(current_user_id).v]
        keep(c) == [cur |-> c, orders |-> orders]
    IN  IF req.order_id \notin 1..Len(orders)
        THEN keep(Respond(c0, 404, "Order not found"))
        ELSE
        LET order == orders[req.order_id]
        IN  IF NotPermitted(current_user.role, order.user_id, current_user_id)
            THEN keep(Respond(c0, 403, "Insufficient permissions"))
            ELSE IF StatusMissing(req.status)
            THEN keep(Respond(c0, 400, "Status is required"))
            ELSE IF req.status \notin valid_statuses
            THEN keep(Respond(c0, 400, "Invalid status"))
            ELSE IF ~db_ok
            THEN keep([Respond(c0, 500, "database error") EXCEPT
                          !.old_status = order.status])
            ELSE [cur |-> [c0 EXCEPT
                             !.pc = "done", !.code = 200,
                             !.old_status = order.status,
                             !.order = [order EXCEPT !.status = req.status,
                                                     !.updated_at = req.now],
                             !.events = <<emit_socketio_event(
                                 StatusChangedEvent(order, order.status, req.status),
                                 emit_ok)>>],
                  orders |-> [orders EXCEPT ![req.order_id].status = req.status,
                                            ![req.order_id].updated_at = req.now]]

UpdateOrderStatus(req) ==
    /\ cur.pc = "idle"
    /\ \E db_ok, emit_ok \in BOOLEAN :
          LET r == update_order_status(req, db_ok, emit_ok)
          IN  cur' = r.cur /\ orders' = r.orders
    /\ UNCHANGED <<order_items, printers, sessions, other_tables>>

\* ------------------------------------------------------------- add_order_item, remove_order_item
\* faulty variant: the status window is not checked
CanModifyItems_Always(status) == TRUE

\* order.status in ['pending', 'confirmed']
CanModifyItems(status) == status \in {"pending", "confirmed"}

add_order_item(req, new_item_id, db_ok) ==
    LET c0 == [Idle EXCEPT !.op = "add_order_item", !.req = req]
        current_user_id == req.ident
        current_user == Users[ToInt(current_user_id).v]
        data == req.item
        keep(c) == [cur |-> c, orders |-> orders, order_items |-> order_items]
    IN  IF req.order_id \notin 1..Len(orders)
        THEN keep(Respond(c0, 404, "Order not found"))
        ELSE
        LET order == orders[req.order_id]
        IN  IF NotPermitted(current_user.role, order.user_id, current_user_id)
            THEN keep(Respond(c0, 403, "Insufficient permissions"))
            ELSE IF ~CanModifyItems(order.status)
            THEN keep(Respond(c0, 400, "Cannot add items to this order"))
            ELSE IF ~Truthy(data.menu_item_id) \/ ~Truthy(data.quantity)
            THEN keep(Respond(c0, 400, "Menu item ID and quantity are required"))
            ELSE IF data.menu_item_id.v \notin DOMAIN MenuItems
            THEN keep(Respond(c0, 404, "Menu item not found"))
            ELSE
            LET menu_item == MenuItems[data.menu_item_id.v]
                quantity == ToInt(data.quantity)
                unit_price == menu_item.price
                total_price == Mul(unit_price, quantity)
                total_amount == Add(order.total_amount, total_price)
                tax_amount == TimesRate(total_amount, TaxRatePercent)
                order_item == [id |-> new_item_id, order_id |-> order.id,
                               menu_item_id |-> data.menu_item_id.v,
                               quantity |-> quantity.v,
                               unit_price |-> unit_price, total_price |-> total_price]
                new_order == [order EXCEPT !.total_amount = total_amount,
                                           !.tax_amount = tax_amount,
                                           !.updated_at = req.now]
            IN  IF ~menu_item.is_available
                THEN keep(Respond(c0, 400, "Menu item is not available"))
                ELSE IF IsError(total_price) \/ IsError(total_amount) \/ IsError(tax_amount)
                THEN keep(Respond(c0, 500, "TypeError"))
                ELSE IF ~db_ok
                THEN keep(Respond(c0, 500, "database error"))
                ELSE [cur |-> [c0 EXCEPT !.pc = "done", !.code = 201,
                                         !.order = PersistOrder(new_order),
                                         !.lines = <<PersistLine(order_item)>>],
                      orders |-> [orders EXCEPT ![req.order_id] = PersistOrder(new_order)],
                      order_items |-> AfterCommit(order_items, <<PersistLine(order_item)>>)]

AddOrderItem(req) ==
    /\ cur.pc = "idle"
    /\ \E db_ok \in BOOLEAN :
          LET r == add_order_item(req, MaxId(order_items) + 1, db_ok)
          IN  cur' = r.cur /\ orders' = r.orders /\ order_items' = r.order_items
    /\ UNCHANGED <<printers, sessions, other_tables>>

remove_order_item(req, db_ok) ==
    LET c0 == [Idle EXCEPT !.op = "remove_order_item", !.req = req]
        current_user_id == req.ident
        current_user == Users[ToInt(current_user_id).v]
        keep(c) == [cur |-> c, orders |-> orders, order_items |-> order_items]
    IN  IF req.order_id \notin 1..Len(orders)
        THEN keep(Respond(c0, 404, "Order not found"))
        ELSE
        LET order == orders[req.order_id]
            found == SelectSeq(order_items,
                               LAMBDA l : l.id = req.item_id /\ l.order_id = req.order_id)
        IN  IF NotPermitted(current_user.role, order.user_id, current_user_id)
            THEN keep(Respond(c0, 403, "Insufficient permissions"))
            ELSE IF ~CanModifyItems(order.status)
            THEN keep(Respond(c0, 400, "Cannot remove items from this order"))
            ELSE IF found = <<>>
            THEN keep(Respond(c0, 404, "Order item not found"))
            ELSE
            LET order_item == found[1]
                total_amount == Sub(order.total_amount, order_item.total_price)
                tax_amount == TimesRate(total_amount, TaxRatePercent)
                new_order == [order EXCEPT !.total_amount = total_amount,
                                           !.tax_amount = tax_amount,
                                           !.updated_at = req.now]
            IN  IF IsError(total_amount) \/ IsError(tax_amount)
                THEN keep(Respond(c0, 500, "TypeError"))
                ELSE IF ~db_ok
                THEN keep(Respond(c0, 500, "database error"))
                ELSE [cur |-> [c0 EXCEPT !.pc = "done", !.code = 200,
                                         !.order = PersistOrder(new_order)],
                      orders |-> [orders EXCEPT ![req.order_id] = PersistOrder(new_order)],
                      order_items |-> SelectSeq(order_items,
                                                LAMBDA l : l.id # order_item.id)]

RemoveOrderItem(req) ==
    /\ cur.pc = "idle"
    /\ \E db_ok \in BOOLEAN :
          LET r == remove_order_item(req, db_ok)
          IN  cur' = r.cur /\ orders' = r.orders /\ order_items' = r.order_items
    /\ UNCHANGED <<printers, sessions, other_tables>>


\* ------------------------------------------------------------- printers
printer_types == {"kitchen", "bar", "receipt"}

\* ip.strip().lower() of the addresses the model uses
StripLower(ip) ==
    CASE ip = " Console " -> "console"
      [] ip = "VIRTUAL" -> "virtual"
      [] ip = " " -> ""
      [] OTHER -> ip

\* ip.lower() of the addresses the model uses
Lower(ip) ==
    CASE ip = " Console " -> " console "
      [] ip = "VIRTUAL" -> "virtual"
      [] OTHER -> ip

\* faulty variant: only the console names are virtual, as written
IsVirtual_NamesOnly(ip) == ip \in {"console", "stdout", "virtual"}

\* print_order's test for a virtual printer
IsVirtual(ip) == StripLower(ip) \in {"", "console", "stdout", "virtual"}

\* send_to_thermal_printer: the console names print, otherwise a socket is
\* opened; `down` are the printers that refuse or time out
send_to_thermal_printer(printer, down) ==
    IF Lower(printer.ip_address) \in {"console", "stdout", "virtual"}
    THEN [success |-> TRUE, message |-> "Printed to console"]
    ELSE IF printer.id \in down
    THEN [success |-> FALSE, message |-> "connection failed"]
    ELSE [success |-> TRUE, message |-> "Print job sent successfully"]

\* The item rows of a document, as the ids of the lines they print.
\* format_kitchen_order and format_bar_order: the loop that writes the rows of
\* the filtered lines is inside the loop that filters the order's lines, so the
\* lines collected so far are written again at every line of the order
RECURSIVE FilteredRows(_, _, _)
FilteredRows(items, collected, destination) ==
    IF items = <<>> THEN <<>>
    ELSE LET collected2 ==
                 IF MenuItems[Head(items).menu_item_id].printer_destination = destination
                 THEN Append(collected, Head(items).id) ELSE collected
         IN  collected2 \o FilteredRows(Tail(items), collected2, destination)

format_kitchen_order(order) == FilteredRows(ItemsOf(order.id), <<>>, "kitchen")

format_bar_order(order) == FilteredRows(ItemsOf(order.id), <<>>, "bar")

\* format_receipt: one row per line of the order
format_receipt(order) == [n \in 1..Len(ItemsOf(order.id)) |-> ItemsOf(order.id)[n].id]

\* print_order's choice of the formatter
FormatFor(printer_type, order) ==
    CASE printer_type = "kitchen" -> format_kitchen_order(order)
      [] printer_type = "bar" -> format_bar_order(order)
      [] OTHER -> format_receipt(order)

\* printers.emit_socketio_event: to the room, then to everybody
PrintOutputEvents(printer, order) ==
    LET e == [name |-> "print_output", room |-> "restaurant", order_id |-> order.id,
              old_status |-> "", new_status |-> "", printer |-> printer.id,
              total_amount |-> PyDec(0), delivered |-> TRUE,
              printer_type |-> printer.printer_type,
              content |-> FormatFor(printer.printer_type, order)]
    IN  <<e, [e EXCEPT !.room = ""]>>

\* the body of the loop over the printers: the report entry and the events
PrintOne(printer, order, down) ==
    LET sent == IF IsVirtual(printer.ip_address)
                THEN [success |-> TRUE, message |-> "Printed to console (direct)"]
                ELSE send_to_thermal_printer(printer, down)
    IN  [results |-> <<[printer |-> printer.id, printer_type |-> printer.printer_type,
                        success |-> sent.success, message |-> sent.message]>>,
         events |-> IF sent.success THEN PrintOutputEvents(printer, order) ELSE <<>>]

\* faulty variant: the loop stops at the first printer that fails
RECURSIVE PrintLoop_StopsAtFailure(_, _, _)
PrintLoop_StopsAtFailure(ps, order, down) ==
    IF ps = <<>> THEN [results |-> <<>>, events |-> <<>>]
    ELSE LET one == PrintOne(Head(ps), order, down)
             rest == IF one.results[1].success
                     THEN PrintLoop_StopsAtFailure(Tail(ps), order, down)
                     ELSE [results |-> <<>>, events |-> <<>>]
         IN  [results |-> one.results \o rest.results,
              events |-> one.events \o rest.events]

RECURSIVE PrintLoop(_, _, _)
PrintLoop(ps, order, down) ==
    IF ps = <<>> THEN [results |-> <<>>, events |-> <<>>]
    ELSE LET rest == PrintLoop(Tail(ps), order, down)
         IN  IF Head(ps).printer_type \notin printer_types
             THEN rest
             ELSE [results |-> PrintOne(Head(ps), order, down).results \o rest.results,
                   events |-> PrintOne(Head(ps), order, down).events \o rest.events]

\* faulty variant: the printers of the type, active or not
ActivePrinters_Inactive(printer_type) ==
    SelectSeq(printers, LAMBDA p : printer_type = "all" \/ p.printer_type = printer_type)

\* PrinterConfig.query.filter_by(is_active=True[, printer_type=...]).all()
ActivePrinters(printer_type) ==
    SelectSeq(printers, LAMBDA p : p.is_active /\
                                   (printer_type = "all" \/ p.printer_type = printer_type))

print_order(req) ==
    LET c0 == [Idle EXCEPT !.op = "print_order", !.req = req]
        printer_type == IF req.printer_type = Absent THEN "all" ELSE req.printer_type
    IN  IF req.order_id \notin 1..Len(orders)
        THEN Respond(c0, 404, "Order not found")
        ELSE IF ~req.has_body
        THEN Respond(c0, 500, "AttributeError")
        ELSE LET out == PrintLoop(ActivePrinters(printer_type), orders[req.order_id],
                                  req.down)
             IN  [c0 EXCEPT !.pc = "done", !.code = 200,
                            !.results = out.results, !.events = out.events]

PrintOrder(req) ==
    /\ cur.pc = "idle"
    /\ cur' = print_order(req)
    /\ UNCHANGED <<orders, order_items, printers, sessions, other_tables>>

create_printer_config(req, db_ok) ==
    LET c0 == [Idle EXCEPT !.op = "create_printer_config", !.req = req]
        current_user == Users[ToInt(req.ident).v]
        keep(c) == [cur |-> c, printers |-> printers]
    IN  IF current_user.role \notin {"admin", "manager"}
        THEN keep(Respond(c0, 403, "Insufficient permissions"))
        ELSE IF req.printer_type \in {Absent, ""} \/ req.ip_address = ""
        THEN keep(Respond(c0, 400, "field is required"))
        ELSE IF req.printer_type \notin printer_types
        THEN keep(Respond(c0, 400, "Invalid printer type"))
        ELSE IF ~db_ok
        THEN keep(Respond(c0, 500, "database error"))
        ELSE [cur |-> [c0 EXCEPT !.pc = "done", !.code = 201],
              printers |-> Append(printers, [id |-> Len(printers) + 1,
                                             printer_type |-> req.printer_type,
                                             ip_address |-> req.ip_address,
                                             is_active |-> TRUE])]

CreatePrinterConfig(req) ==
    /\ cur.pc = "idle"
    /\ Len(printers) < MaxPrinters
    /\ \E db_ok \in BOOLEAN :
          LET r == create_printer_config(req, db_ok)
          IN  cur' = r.cur /\ printers' = r.printers
    /\ UNCHANGED <<orders, order_items, sessions, other_tables>>

delete_printer_config(req, db_ok) ==
    LET c0 == [Idle EXCEPT !.op = "delete_printer_config", !.req = req]
        current_user == Users[ToInt(req.ident).v]
        keep(c) == [cur |-> c, printers |-> printers]
    IN  IF current_user.role \notin {"admin", "manager"}
        THEN keep(Respond(c0, 403, "Insufficient permissions"))
        ELSE IF req.printer_id \notin 1..Len(printers)
        THEN keep(Respond(c0, 404, "Printer not found"))
        ELSE IF ~db_ok
        THEN keep(Respond(c0, 500, "database error"))
        ELSE [cur |-> [c0 EXCEPT !.pc = "done", !.code = 200],
              printers |-> [printers EXCEPT ![req.printer_id].is_active = FALSE]]

DeletePrinterConfig(req) ==
    /\ cur.pc = "idle"
    /\ \E db_ok \in BOOLEAN :
          LET r == delete_printer_config(req, db_ok)
          IN  cur' = r.cur /\ printers' = r.printers
    /\ UNCHANGED <<orders, order_items, sessions, other_tables>>


\* update_printer_config: the keys of the body that are present are assigned;
\* the address is stored as given, empty included
update_printer_config(req, db_ok) ==
    LET c0 == [Idle EXCEPT !.op = "update_printer_config", !.req = req]
        current_user == Users[ToInt(req.ident).v]
        keep(c) == [cur |-> c, printers |-> printers]
        printer == printers[req.printer_id]
        typed == IF req.printer_type = Absent THEN printer
                 ELSE [printer EXCEPT !.printer_type = req.printer_type]
        addressed == IF req.ip_address = Absent THEN typed
                     ELSE [typed EXCEPT !.ip_address = req.ip_address]
        activated == IF req.is_active = Absent THEN addressed
                     ELSE [addressed EXCEPT !.is_active = (req.is_active = "true")]
    IN  IF current_user.role \notin {"admin", "manager"}
        THEN keep(Respond(c0, 403, "Insufficient permissions"))
        ELSE IF req.printer_id \notin 1..Len(printers)
        THEN keep(Respond(c0, 404, "Printer not found"))
        ELSE IF req.printer_type # Absent /\ req.printer_type \notin printer_types
        THEN keep(Respond(c0, 400, "Invalid printer type"))
        ELSE IF ~db_ok
        THEN keep(Respond(c0, 500, "database error"))
        ELSE [cur |-> [c0 EXCEPT !.pc = "done", !.code = 200],
              printers |-> [printers EXCEPT ![req.printer_id] = activated]]

UpdatePrinterConfig(req) ==
    /\ cur.pc = "idle"
    /\ \E db_ok \in BOOLEAN :
          LET r == update_printer_config(req, db_ok)
          IN  cur' = r.cur /\ printers' = r.printers
    /\ UNCHANGED <<orders, order_items, sessions, other_tables>>


\* ------------------------------------------------------------- locations
\* update_location: an admin renames a location to a name no other location has
update_location(req, db_ok) ==
    LET c0 == [Idle EXCEPT !.op = "update_location", !.req = req]
        current_user == Users[ToInt(req.ident).v]
        keep(c) == [cur |-> c, locations |-> locations]
        location_id == req.location_id.v
    IN  IF current_user.role # "admin"
        THEN keep(Respond(c0, 403, "Only admins can update locations"))
        ELSE IF location_id \notin DOMAIN locations
        THEN keep(Respond(c0, 404, "Location not found"))
        ELSE IF /\ req.name # Absent /\ req.name # locations[location_id]
                /\ \E l \in DOMAIN locations : locations[l] = req.name
        THEN keep(Respond(c0, 400, "Location name already exists"))
        ELSE IF ~db_ok
        THEN keep(Respond(c0, 500, "database error"))
        ELSE [cur |-> [c0 EXCEPT !.pc = "done", !.code = 200],
              locations |-> IF req.name = Absent THEN locations
                            ELSE [locations EXCEPT ![location_id] = req.name]]

UpdateLocation(req) ==
    /\ cur.pc = "idle"
    /\ \E db_ok \in BOOLEAN :
          LET r == update_location(req, db_ok)
          IN  cur' = r.cur /\ locations' = r.locations
    /\ UNCHANGED <<orders, order_items, printers, sessions, table_assignments, account, clock>>


\* ------------------------------------------------------------- table assignments
\* faulty variant: the assignment found for the table is left active
DeactivateExisting_Keeps(rows, table_id) == rows

\* filter_by(table_id=..., is_active=True).first() and, when a row is found,
\* existing_assignment.is_active = False
DeactivateExisting(rows, table_id) ==
    LET found == {k \in 1..Len(rows) : rows[k].table_id = table_id /\ rows[k].is_active}
    IN  IF found = {} THEN rows
        ELSE LET existing == CHOOSE k \in found : \A j \in found : k <= j
             IN  [rows EXCEPT ![existing].is_active = FALSE]

assign_table(req, db_ok) ==
    LET c0 == [Idle EXCEPT !.op = "assign_table", !.req = req]
        current_user == Users[ToInt(req.ident).v]
        keep(c) == [cur |-> c, table_assignments |-> table_assignments]
        new_assignment == [id |-> Len(table_assignments) + 1,
                           table_id |-> req.table_id.v, user_id |-> req.user_id.v,
                           is_active |-> TRUE]
    IN  IF current_user.role \notin {"admin", "manager"}
        THEN keep(Respond(c0, 403, "Insufficient permissions"))
        ELSE IF ~Truthy(req.table_id) \/ ~Truthy(req.user_id)
        THEN keep(Respond(c0, 400, "Table ID and User ID are required"))
        ELSE IF req.table_id.v \notin Tables
        THEN keep(Respond(c0, 404, "Table not found"))
        ELSE IF req.user_id.v \notin DOMAIN Users
        THEN keep(Respond(c0, 404, "User not found"))
        ELSE IF ~db_ok
        THEN keep(Respond(c0, 500, "database error"))
        ELSE [cur |-> [c0 EXCEPT !.pc = "done", !.code = 201],
              table_assignments |->
                  Append(DeactivateExisting(table_assignments, req.table_id.v),
                         new_assignment)]

AssignTable(req) ==
    /\ cur.pc = "idle"
    /\ Len(table_assignments) < MaxAssignments
    /\ \E db_ok \in BOOLEAN :
          LET r == assign_table(req, db_ok)
          IN  cur' = r.cur /\ table_assignments' = r.table_assignments
    /\ UNCHANGED <<orders, order_items, printers, sessions, locations, account, clock>>

unassign_table(req, db_ok) ==
    LET c0 == [Idle EXCEPT !.op = "unassign_table", !.req = req]
        current_user == Users[ToInt(req.ident).v]
        keep(c) == [cur |-> c, table_assignments |-> table_assignments]
    IN  IF current_user.role \notin {"admin", "manager"}
        THEN keep(Respond(c0, 403, "Insufficient permissions"))
        ELSE IF req.assignment_id \notin 1..Len(table_assignments)
        THEN keep(Respond(c0, 404, "Assignment not found"))
        ELSE IF ~db_ok
        THEN keep(Respond(c0, 500, "database error"))
        ELSE [cur |-> [c0 EXCEPT !.pc = "done", !.code = 200],
              table_assignments |->
                  [table_assignments EXCEPT ![req.assignment_id].is_active = FALSE]]

UnassignTable(req) ==
    /\ cur.pc = "idle"
    /\ \E db_ok \in BOOLEAN :
          LET r == unassign_table(req, db_ok)
          IN  cur' = r.cur /\ table_assignments' = r.table_assignments
    /\ UNCHANGED <<orders, order_items, printers, sessions, locations, account, clock>>

\* ------------------------------------------------------------- login lockout
\* the times at which login attempts are made: within a lock, at its end and
\* after it
LoginTimes == {1, 2, 31, 32, 62}

\* faulty variant: a lock is never seen
is_locked_Never(user, now) == FALSE

\* User.is_locked: locked_until and locked_until > datetime.utcnow()
is_locked(user, now) == user.locked_until # NoTime /\ user.locked_until > now

\* User.check_password: the value returned and the columns it leaves on the user
check_password(user, password_ok, now) ==
    IF is_locked(user, now)
    THEN [ok |-> FALSE, user |-> user]
    ELSE IF password_ok
    THEN [ok |-> TRUE,
          user |-> [user EXCEPT !.failed_login_attempts = 0, !.locked_until = NoTime,
                                !.last_login = now]]
    ELSE LET failed_login_attempts == user.failed_login_attempts + 1
         IN  [ok |-> FALSE,
              user |-> [user EXCEPT
                  !.failed_login_attempts = failed_login_attempts,
                  !.locked_until = IF failed_login_attempts >= LockThreshold
                                   THEN now + LockMinutes ELSE @]]

\* the method called on the user row, whatever the caller has tested before
CheckPassword(password_ok, now) ==
    /\ cur.pc = "idle"
    /\ now >= clock
    /\ clock' = now
    /\ LET r == check_password(account, password_ok, now)
       IN  /\ account' = r.user
           /\ cur' = [Idle EXCEPT !.op = "check_password", !.pc = "done",
                                  !.req = [NoReq EXCEPT !.password_ok = password_ok,
                                                        !.now = now],
                                  !.code = IF r.ok THEN 200 ELSE 401]
    /\ UNCHANGED <<orders, order_items, printers, sessions, locations, table_assignments>>

\* login, for an existing and active user
login(req, db_ok) ==
    LET c0 == [Idle EXCEPT !.op = "login", !.req = req]
        keep(c) == [cur |-> c, account |-> account]
        r == check_password(account, req.password_ok, req.now)
    IN  IF is_locked(account, req.now)
        THEN keep(Respond(c0, 401, "Account is temporarily locked"))
        ELSE IF ~db_ok
        THEN keep(Respond(c0, 500, "database error"))
        ELSE IF ~r.ok
        THEN [cur |-> Respond(c0, 401,
                              IF LockThreshold - r.user.failed_login_attempts <= 0
                              THEN "Account has been locked" ELSE "Invalid credentials"),
              account |-> r.user]
        ELSE [cur |-> [c0 EXCEPT !.pc = "done", !.code = 200],
              account |-> [r.user EXCEPT !.last_login = req.now]]

Login(req) ==
    /\ cur.pc = "idle"
    /\ req.now >= clock
    /\ clock' = req.now
    /\ \E db_ok \in BOOLEAN :
          LET r == login(req, db_ok)
          IN  cur' = r.cur /\ account' = r.account
    /\ UNCHANGED <<orders, order_items, printers, sessions, locations, table_assignments>>

\* ------------------------------------------------------------- end of a request
\* the response has been sent and the request context is torn down
Return ==
    /\ cur.pc = "done"
    /\ cur' = Idle
    /\ UNCHANGED <<orders, order_items, printers, sessions, other_tables>>

\* ------------------------------------------------------------- a burst of create_order requests
\* the workers that handle requests at the same time, each with its own session
Workers == 1..MaxWorkers

\* the orders that sessions have flushed and not yet committed or rolled back
PendingOrders ==
    [w \in Workers |-> IF sessions[w].pc = "items" THEN sessions[w].order ELSE NoRow]

\* the key of a new order: an id no committed or pending row has (the ids of
\* rolled-back rows are given again, which keeps the ids bounded)
NextBurstOrderId ==
    LET used == {orders[k].id : k \in 1..Len(orders)}
                    \cup {PendingOrders[w].id : w \in Workers}
    IN  CHOOSE n \in 1..(Len(orders) + MaxWorkers) :
            n \notin used /\ \A m \in 1..(n - 1) : m \in used

\* the committed table with a row added, rows kept in id order
InsertById(rows, row) ==
    SelectSeq(rows, LAMBDA r : r.id < row.id) \o <<row>>
        \o SelectSeq(rows, LAMBDA r : r.id > row.id)

\* create_order up to the flush of the order, in a worker's own session.  An
\* INSERT of a number that another open transaction has inserted waits for
\* that transaction to end.
BurstBegin(w, req) ==
    /\ sessions[w].pc = "idle"
    /\ Len(orders) < MaxWorkers
    /\ \E order_number \in OrderNumbers, db_ok \in BOOLEAN :
          /\ ~NumberTaken(order_number, PendingOrders)
          /\ sessions' = [sessions EXCEPT ![w] =
                 create_order_begin(req, NextBurstOrderId, order_number, db_ok)]
    /\ UNCHANGED <<orders, order_items, printers, cur, other_tables>>

BurstItem(w) ==
    /\ sessions[w].op = "create_order" /\ sessions[w].pc = "items"
    /\ sessions[w].i <= Len(sessions[w].req.items)
    /\ sessions' = [sessions EXCEPT ![w] = create_order_item(sessions[w])]
    /\ UNCHANGED <<orders, order_items, printers, cur, other_tables>>

BurstCommit(w) ==
    /\ sessions[w].op = "create_order" /\ sessions[w].pc = "items"
    /\ sessions[w].i > Len(sessions[w].req.items)
    /\ \E db_ok, print_ok, emit_ok \in BOOLEAN :
          sessions' = [sessions EXCEPT ![w] =
              create_order_commit(sessions[w], MaxId(order_items) + 1,
                                  db_ok, print_ok, emit_ok)]
    /\ orders' = IF sessions'[w].order # NoRow
                 THEN InsertById(orders, sessions'[w].order) ELSE orders
    /\ order_items' = IF sessions'[w].order # NoRow
                      THEN AfterCommit(order_items, sessions'[w].lines) ELSE order_items
    /\ UNCHANGED <<printers, cur, other_tables>>

BurstReturn(w) ==
    /\ sessions[w].pc = "done"
    /\ sessions' = [sessions EXCEPT ![w] = Idle]
    /\ UNCHANGED <<orders, order_items, printers, cur, other_tables>>

\* ------------------------------------------------------------- requests
CreateReq(u, order_type, table_id, location_id, items) ==
    [NoReq EXCEPT !.ident = Identity(u), !.order_type = order_type,
                  !.table_id = table_id, !.location_id = location_id, !.items = items]

StatusReq(u, order_id, status) ==
    [NoReq EXCEPT !.ident = Identity(u), !.order_id = order_id, !.status = status]

AddReq(u, order_id, item) ==
    [NoReq EXCEPT !.ident = Identity(u), !.order_id = order_id, !.item = item]

RemoveReq(u, order_id, item_id) ==
    [NoReq EXCEPT !.ident = Identity(u), !.order_id = order_id, !.item_id = item_id]

AssignReq(u, table_id, user_id) ==
    [NoReq EXCEPT !.ident = Identity(u), !.table_id = table_id, !.user_id = user_id]

UnassignReq(u, assignment_id) ==
    [NoReq EXCEPT !.ident = Identity(u), !.assignment_id = assignment_id]

PrintReq(order_id, has_body, printer_type, down) ==
    [NoReq EXCEPT !.order_id = order_id, !.has_body = has_body,
                  !.printer_type = printer_type, !.down = down]

PrinterReq(u, printer_type, ip_address) ==
    [NoReq EXCEPT !.ident = Identity(u), !.printer_type = printer_type,
                  !.ip_address = ip_address]

DeletePrinterReq(u, printer_id) ==
    [NoReq EXCEPT !.ident = Identity(u), !.printer_id = printer_id]

UpdatePrinterReq(u, printer_id, printer_type, ip_address, is_active) ==
    [NoReq EXCEPT !.ident = Identity(u), !.printer_id = printer_id,
                  !.printer_type = printer_type, !.ip_address = ip_address,
                  !.is_active = is_active]

SeqsUpTo(S, n) == UNION {[1..m -> S] : m \in 0..n}

\* an id no row has
MissingOrderId == MaxOrders + 1

\* lines of a request: two that are accepted (one with a price override that
\* has a fraction of a cent), and lines that fail each per-line check
GoodLine == Line(PyInt(1), PyInt(2), NoneV)
OverrideLine == Line(PyInt(1), PyInt(1), PyFloat(140))
UnknownItemLine == Line(PyInt(9), PyInt(1), NoneV)
NoQuantityLine == Line(PyInt(1), NoneV, NoneV)
DineInOnlyLine == Line(PyInt(4), PyInt(1), NoneV)
TakeawayOnlyLine == Line(PyInt(5), PyInt(1), NoneV)

LineKinds == {GoodLine, OverrideLine, UnknownItemLine, NoQuantityLine, DineInOnlyLine}

CreateReqs ==
    {CreateReq(1, ot, t, l, items) :
        ot \in {"dine_in", "takeaway"}, t \in {NoneV, PyInt(1)},
        l \in {NoneV}, items \in SeqsUpTo(LineKinds, MaxLines)}

PricingLines ==
    {Line(PyInt(m), PyInt(q), p) :
        m \in 1..3, q \in {2},
        p \in {NoneV, EmptyStr, PyInt(0), PyFloat(140), PyInt(500)}}

PricingReqs ==
    {CreateReq(u, ot, PyInt(1), l, <<line>>) :
        u \in {1, 3}, ot \in {"dine_in", "takeaway", "delivery"},
        l \in {NoneV, PyInt(1), PyInt(2)}, line \in PricingLines}

LifecycleCreateReqs ==
    {CreateReq(1, "dine_in", PyInt(1), NoneV, <<GoodLine>>),
     CreateReq(3, "takeaway", NoneV, NoneV, <<GoodLine>>)}

\* the request, handled at time t
At(req, t) == [req EXCEPT !.now = t]

StatusReqs ==
    {At(StatusReq(u, o, st), t) :
        u \in {1, 2, 3, 4}, o \in 1..MissingOrderId,
        st \in valid_statuses \cup {Absent, "", "paid"}, t \in Clock}

AddReqs ==
    {AddReq(u, o, item) :
        u \in {1, 3}, o \in 1..MissingOrderId,
        item \in {GoodLine, UnknownItemLine, NoQuantityLine, TakeawayOnlyLine}}

RemoveReqs ==
    {RemoveReq(u, o, k) : u \in {1, 3}, o \in 1..MissingOrderId, k \in 1..2}

\* the requests of a burst: one that is accepted, one whose second line fails
BurstReqs ==
    {CreateReq(3, "takeaway", NoneV, NoneV, <<GoodLine>>),
     CreateReq(1, "dine_in", PyInt(1), NoneV, <<GoodLine, UnknownItemLine>>)}

\* lines of every availability, and lines with a quantity of zero and below
ValidateLines ==
    {Line(PyInt(m), PyInt(1), NoneV) : m \in {1, 4, 5, 6, 7}}
        \cup {Line(PyInt(1), PyInt(q), NoneV) : q \in {0, -1}}

\* requests of every order type, one that is none of the three included,
\* with and without a table, of one line or of an accepted line and another
ValidateReqs ==
    {CreateReq(3, ot, t, NoneV, items) :
        ot \in {Absent, "dine_in", "takeaway", "delivery", "pickup"},
        t \in {NoneV, PyInt(1), PyInt(9)},
        items \in {<<l>> : l \in ValidateLines}
                    \cup {<<Line(PyInt(1), PyInt(1), NoneV), l>> : l \in ValidateLines}}

PrintCreateReqs == {CreateReq(3, "takeaway", NoneV, NoneV, <<GoodLine>>)}

PrinterReqs ==
    {PrinterReq(u, t, ip) :
        u \in {1, 3}, t \in {"kitchen", "receipt", "label"},
        ip \in {"", "192.168.1.50", "console"}}

DeletePrinterReqs ==
    {DeletePrinterReq(u, k) : u \in {1, 3}, k \in 1..MaxPrinters}

\* the printers a socket is opened to
RealPrinterIds ==
    {k \in 1..Len(printers) : printers[k].is_active /\ ~IsVirtual(printers[k].ip_address)}

PrintReqs ==
    {PrintReq(1, TRUE, t, d) :
        t \in {Absent, "all", "kitchen", "receipt"}, d \in SUBSET RealPrinterIds}
    \cup {PrintReq(MissingOrderId, TRUE, "all", {}), PrintReq(1, FALSE, Absent, {})}

\* printers whose address is a console name, however it is written, or a host
VirtualPrinterReqs ==
    {PrinterReq(3, "kitchen", ip) : ip \in {"console", "192.168.1.50"}}

VirtualUpdateReqs ==
    {UpdatePrinterReq(3, k, Absent, ip, Absent) :
        k \in 1..MaxPrinters, ip \in {"", " Console "}}
    \cup {UpdatePrinterReq(3, 1, "receipt", Absent, "false"),
          UpdatePrinterReq(3, 1, "label", "console", Absent),
          UpdatePrinterReq(1, 1, Absent, "console", Absent)}

\* print requests during which any of the hosts may be unreachable
VirtualPrintReqs ==
    {PrintReq(1, TRUE, Absent, d) : d \in SUBSET (1..Len(printers))}

\* the calls of a manager or an admin that move an order between open and closed
\* statuses and try to change its lines
ClosedStatusReqs ==
    {At(StatusReq(u, 1, st), t) :
        u \in {3, 4}, st \in {"pending", "preparing", "served", "cancelled"}, t \in Clock}
    \cup {StatusReq(3, MaxOrders, "ready")}

ClosedAddReqs == {AddReq(u, o, GoodLine) : u \in {3, 4}, o \in 1..MaxOrders}

ClosedRemoveReqs == {RemoveReq(3, o, k) : o \in 1..MaxOrders, k \in 1..2}

\* orders of every type with and without a table and a customer name, handled
\* at either time, the clock advancing or not before the INSERT
GuestReqs ==
    {[CreateReq(3, ot, t, NoneV, <<GoodLine>>) EXCEPT
         !.customer_name = name, !.now = time[1], !.elapsed = time[2]] :
        ot \in {"dine_in", "takeaway", "delivery"}, t \in {NoneV, PyInt(1)},
        name \in {Absent, NoName, "", " ", "Ann"},
        time \in {<<1, 0>>, <<1, 1>>, <<2, 0>>}}

\* requests that fail at the items, the table, the location, a line, or several
\* of them at once
HeaderReqs ==
    {CreateReq(3, ot, t, l, items) :
        ot \in {"dine_in", "takeaway"}, t \in {NoneV, PyInt(1), PyInt(9)},
        l \in {NoneV, PyInt(2), PyInt(9)},
        items \in {<<>>, <<GoodLine>>, <<UnknownItemLine>>}}

\* renamings of the locations, and orders of every type by a waiter of the
\* beach bar and by an admin without a location, with and without a location_id
\* (0 and 9 name no location)
LocationUpdateReqs ==
    {[NoReq EXCEPT !.ident = Identity(u), !.location_id = PyInt(l), !.name = name] :
        u \in {3, 4}, l \in {1, 2, 9}, name \in {Absent, "shop", "beach_bar", "terrace"}}

LocationCreateReqs ==
    {CreateReq(u, ot, PyInt(1), l, <<GoodLine>>) :
        u \in {1, 3}, ot \in {"dine_in", "takeaway", "delivery"},
        l \in {NoneV, PyInt(0), PyInt(1), PyInt(2), PyInt(9)}}

\* orders of one line or two, for the kitchen, the bar or neither
FormatCreateReqs ==
    {CreateReq(3, "takeaway", NoneV, NoneV, items) :
        items \in SeqsUpTo({Line(PyInt(m), PyInt(1), NoneV) : m \in 1..3}, MaxLines)
                    \ {<<>>}}

\* ------------------------------------------------------------- specifications
Init ==
    /\ orders = <<>>
    /\ order_items = <<>>
    /\ printers = <<>>
    /\ cur = Idle
    /\ sessions = [w \in Workers |-> Idle]
    /\ locations = Locations
    /\ table_assignments = <<>>
    /\ account = [failed_login_attempts |-> 0, locked_until |-> NoTime,
                  last_login |-> NoTime]
    /\ clock = NoTime

\* the order life cycle: creation, status changes, line additions and removals
Next ==
    \/ \E req \in LifecycleCreateReqs : CreateOrderBegin(req)
    \/ CreateOrderItem
    \/ CreateOrderCommit
    \/ \E req \in StatusReqs : UpdateOrderStatus(req)
    \/ \E req \in AddReqs : AddOrderItem(req)
    \/ \E req \in RemoveReqs : RemoveOrderItem(req)
    \/ Return

Spec == Init /\ [][Next]_vars

\* order creation over requests with several lines, valid and invalid
NextCreate ==
    \/ \E req \in CreateReqs : CreateOrderBegin(req)
    \/ CreateOrderItem
    \/ CreateOrderCommit
    \/ Return

SpecCreate == Init /\ [][NextCreate]_vars

\* order creation over one-line requests of every order type, location,
\* price tier and price override
NextPricing ==
    \/ \E req \in PricingReqs : CreateOrderBegin(req)
    \/ CreateOrderItem
    \/ CreateOrderCommit
    \/ Return

SpecPricing == Init /\ [][NextPricing]_vars

\* printer configuration and print dispatch
NextPrint ==
    \/ \E req \in PrintCreateReqs : CreateOrderBegin(req)
    \/ CreateOrderItem
    \/ CreateOrderCommit
    \/ \E req \in PrinterReqs : CreatePrinterConfig(req)
    \/ \E req \in DeletePrinterReqs : DeletePrinterConfig(req)
    \/ UpdatePrinterConfig(UpdatePrinterReq(3, 1, Absent, Absent, "false"))
    \/ \E req \in PrintReqs : PrintOrder(req)
    \/ Return

SpecPrint == Init /\ [][NextPrint]_vars

\* order creation over requests of every order type, table and availability
NextValidate ==
    \/ \E req \in ValidateReqs : CreateOrderBegin(req)
    \/ CreateOrderItem
    \/ CreateOrderCommit
    \/ Return

SpecValidate == Init /\ [][NextValidate]_vars

\* printing on printers whose address has been edited after their creation
NextVirtual ==
    \/ \E req \in PrintCreateReqs : CreateOrderBegin(req)
    \/ CreateOrderItem
    \/ CreateOrderCommit
    \/ \E req \in VirtualPrinterReqs : CreatePrinterConfig(req)
    \/ \E req \in VirtualUpdateReqs : UpdatePrinterConfig(req)
    \/ \E req \in VirtualPrintReqs : PrintOrder(req)
    \/ Return

SpecVirtual == Init /\ [][NextVirtual]_vars

\* orders that are closed, reopened and edited
NextClosed ==
    \/ \E req \in LifecycleCreateReqs : CreateOrderBegin(req)
    \/ CreateOrderItem
    \/ CreateOrderCommit
    \/ \E req \in ClosedStatusReqs : UpdateOrderStatus(req)
    \/ \E req \in ClosedAddReqs : AddOrderItem(req)
    \/ \E req \in ClosedRemoveReqs : RemoveOrderItem(req)
    \/ Return

SpecClosed == Init /\ [][NextClosed]_vars

\* order creation for guests and named customers
NextGuest ==
    \/ \E req \in GuestReqs : CreateOrderBegin(req)
    \/ CreateOrderItem
    \/ CreateOrderCommit
    \/ Return

SpecGuest == Init /\ [][NextGuest]_vars

\* order creation over requests with several faults at once
NextHeader ==
    \/ \E req \in HeaderReqs : CreateOrderBegin(req)
    \/ CreateOrderItem
    \/ CreateOrderCommit
    \/ Return

SpecHeader == Init /\ [][NextHeader]_vars

\* order creation while the locations are renamed
NextLocation ==
    \/ \E req \in LocationCreateReqs : CreateOrderBegin(req)
    \/ CreateOrderItem
    \/ CreateOrderCommit
    \/ \E req \in LocationUpdateReqs : UpdateLocation(req)
    \/ Return

SpecLocation == Init /\ [][NextLocation]_vars

\* printing of orders with lines for several destinations on console printers
NextFormat ==
    \/ \E req \in FormatCreateReqs : CreateOrderBegin(req)
    \/ CreateOrderItem
    \/ CreateOrderCommit
    \/ \E t \in printer_types : CreatePrinterConfig(PrinterReq(3, t, "console"))
    \/ \E t \in {Absent, "kitchen"} : PrintOrder(PrintReq(1, TRUE, t, {}))
    \/ Return

SpecFormat == Init /\ [][NextFormat]_vars

\* several create_order requests handled at the same time
NextBurst ==
    \/ \E w \in Workers, req \in BurstReqs : BurstBegin(w, req)
    \/ \E w \in Workers : BurstItem(w)
    \/ \E w \in Workers : BurstCommit(w)
    \/ \E w \in Workers : BurstReturn(w)

SpecBurst == Init /\ [][NextBurst]_vars

\* ------------------------------------------------------------- line changes handled at the same time
\* add_order_item and remove_order_item up to the last check: the worker's
\* session loads the order (and the line to remove) and tests them; a request
\* that passes keeps the rows it has read for the write that follows
LineChangeBegin(w, op, req) ==
    /\ sessions[w].pc = "idle"
    /\ LET checked == IF op = "add_order_item"
                      THEN add_order_item(req, 0, TRUE).cur
                      ELSE remove_order_item(req, TRUE).cur
           loaded == [Idle EXCEPT
                        !.op = op, !.req = req, !.pc = "write",
                        !.order = orders[req.order_id],
                        !.lines = SelectSeq(order_items,
                                            LAMBDA l : /\ op = "remove_order_item"
                                                       /\ l.id = req.item_id
                                                       /\ l.order_id = req.order_id)]
       IN  sessions' = [sessions EXCEPT ![w] =
                            IF checked.code \in {400, 403, 404} THEN checked ELSE loaded]
    /\ UNCHANGED <<orders, order_items, printers, cur, other_tables>>

\* the totals add_order_item and remove_order_item compute from the order
\* their session has read
line_change(c) ==
    LET order == c.order
        total_price == IF c.op = "add_order_item"
                       THEN Mul(MenuItems[c.req.item.menu_item_id.v].price,
                                ToInt(c.req.item.quantity))
                       ELSE c.lines[1].total_price
        total_amount == IF c.op = "add_order_item"
                        THEN Add(order.total_amount, total_price)
                        ELSE Sub(order.total_amount, total_price)
        tax_amount == TimesRate(total_amount, TaxRatePercent)
    IN  [failed |-> IsError(total_price) \/ IsError(total_amount) \/ IsError(tax_amount),
         total_price |-> total_price, total_amount |-> total_amount,
         tax_amount |-> tax_amount]

\* the rest of add_order_item and remove_order_item: the totals, and the
\* commit that writes the changed columns of the order and the line
LineChangeWrite(w) ==
    /\ sessions[w].pc = "write"
    /\ \E db_ok \in BOOLEAN :
          LET c == sessions[w]
              k == c.req.order_id
              r == line_change(c)
              order_item == [id |-> MaxId(order_items) + 1, order_id |-> k,
                             menu_item_id |-> c.req.item.menu_item_id.v,
                             quantity |-> ToInt(c.req.item.quantity).v,
                             unit_price |-> MenuItems[c.req.item.menu_item_id.v].price,
                             total_price |-> r.total_price]
          IN  IF r.failed \/ ~db_ok
              THEN /\ sessions' = [sessions EXCEPT ![w] =
                          Respond(c, 500, IF r.failed THEN "TypeError"
                                          ELSE "database error")]
                   /\ UNCHANGED <<orders, order_items>>
              ELSE /\ sessions' = [sessions EXCEPT ![w] =
                          [c EXCEPT !.pc = "done",
                                    !.code = IF c.op = "add_order_item" THEN 201 ELSE 200]]
                   /\ orders' = [orders EXCEPT
                          ![k].total_amount = Quantize(r.total_amount),
                          ![k].tax_amount = Quantize(r.tax_amount),
                          ![k].updated_at = c.req.now]
                   /\ order_items' =
                          IF c.op = "add_order_item"
                          THEN AfterCommit(order_items, <<PersistLine(order_item)>>)
                          ELSE SelectSeq(order_items, LAMBDA l : l.id # c.lines[1].id)
    /\ UNCHANGED <<printers, cur, other_tables>>

\* update_order_status handled by a worker
StatusChange(w, req) ==
    /\ sessions[w].pc = "idle"
    /\ \E db_ok, emit_ok \in BOOLEAN :
          LET r == update_order_status(req, db_ok, emit_ok)
          IN  sessions' = [sessions EXCEPT ![w] = r.cur] /\ orders' = r.orders
    /\ UNCHANGED <<order_items, printers, cur, other_tables>>

\* one order is created; its lines and status are then changed by several
\* workers at once
NextRace ==
    \/ \E req \in PrintCreateReqs : orders = <<>> /\ CreateOrderBegin(req)
    \/ CreateOrderItem
    \/ CreateOrderCommit
    \/ Return
    \/ \E w \in Workers : LineChangeBegin(w, "add_order_item", AddReq(3, 1, GoodLine))
    \/ \E w \in Workers, k \in 1..2 :
          LineChangeBegin(w, "remove_order_item", RemoveReq(3, 1, k))
    \/ \E w \in Workers : LineChangeWrite(w)
    \/ \E w \in Workers, st \in {"preparing", "pending"} :
          StatusChange(w, StatusReq(3, 1, st))
    \/ \E w \in Workers : BurstReturn(w)

SpecRace == Init /\ [][NextRace]_vars

\* tables assigned to waiters and unassigned, one request at a time
NextTables ==
    \/ \E u \in {1, 3, 4}, t \in {NoneV, PyInt(1), PyInt(2), PyInt(9)},
          w \in {NoneV, PyInt(1), PyInt(2), PyInt(9)} : AssignTable(AssignReq(u, t, w))
    \/ \E u \in {1, 3}, k \in 1..(MaxAssignments + 1) : UnassignTable(UnassignReq(u, k))
    \/ Return

SpecTables == Init /\ [][NextTables]_vars

\* login attempts on one account with right and wrong passwords, as time passes
NextLogin ==
    \/ \E password_ok \in BOOLEAN, now \in LoginTimes : CheckPassword(password_ok, now)
    \/ \E password_ok \in BOOLEAN, now \in LoginTimes :
          Login([NoReq EXCEPT !.password_ok = password_ok, !.now = now])
    \/ Return

SpecLogin == Init /\ [][NextLogin]_vars


\* ------------------------------------------------------------- properties
RECURSIVE SumTotalPrice(_)
SumTotalPrice(lines) ==
    IF lines = <<>> THEN 0 ELSE Head(lines).total_price.v + SumTotalPrice(Tail(lines))

\* a create_order request has just been answered with 201
Created == cur.op = "create_order" /\ cur.pc = "done" /\ cur.code = 201

\* C1: after a successful create_order the persisted order has
\* subtotal = sum of the total_price of its lines, and total_amount = subtotal.
C1_TotalsMatchLines ==
    Created =>
        LET o == orders[cur.order.id]
        IN  /\ o.subtotal.v = SumTotalPrice(ItemsOf(o.id))
            /\ o.total_amount = o.subtotal

\* C2: a create_order request with a missing or empty items list is rejected
\* (400) and the step adds no row to orders or order_items.
C2_EmptyItemsRejected ==
    [][(cur.pc = "idle" /\ cur'.op = "create_order" /\ Len(cur'.req.items) = 0)
        => (/\ cur'.pc = "done"
            /\ cur'.code = 400
            /\ cur'.order = NoRow
            /\ orders' = orders
            /\ order_items' = order_items)]_vars

C2_Witness ==
    /\ cur.op = "create_order" /\ cur.pc = "done"
    /\ Len(cur.req.items) = 0
    /\ cur.code = 400
    /\ orders = <<>>

\* C3: no step of a create_order request changes the committed orders and
\* order_items tables, except the commit of a request all of whose lines were
\* accepted, which adds the order and every one of its lines at once; so a
\* request that fails at any line leaves nothing a reader can see.
C3_NoPartialOrderVisible ==
    [][(cur'.op = "create_order")
        => IF cur.pc = "items" /\ cur'.pc = "done" /\ cur'.order # NoRow
           THEN /\ orders' = Append(orders, cur'.order)
                /\ order_items' = order_items \o cur'.lines
                /\ Len(cur'.lines) = Len(cur'.req.items)
           ELSE /\ orders' = orders
                /\ order_items' = order_items]_vars

\* a request fails at its second line after the first was accepted
C3_Witness ==
    /\ cur.op = "create_order" /\ cur.pc = "done"
    /\ cur.code \in {400, 404}
    /\ cur.i = 2
    /\ orders = <<>> /\ order_items = <<>>

\* the lines of the request just created, with what was persisted for each
NoOverride(item_data) == item_data.unit_price \in {NoneV, EmptyStr}

CreatedLines == IF Created THEN 1..Len(cur.lines) ELSE {}

MenuItemOf(k) == MenuItems[cur.lines[k].menu_item_id]

\* C4 as stated: on a takeaway order a line without override is priced at
\* the takeaway price if that column is not NULL, else at the base price.
C4_TakeawayPriceIfSet ==
    \A k \in CreatedLines :
        (cur.order.order_type = "takeaway" /\ NoOverride(cur.req.items[k]))
        => cur.lines[k].unit_price =
              IF MenuItemOf(k).takeaway_price # NoneV
              THEN MenuItemOf(k).takeaway_price ELSE MenuItemOf(k).price

\* C4 amended: on a takeaway order a line without override is priced at the
\* takeaway price if that is set and not zero, else at the base price, and
\* at the beach-bar price only where that equals the price so chosen,
\* whatever the location of the order.
C4_TakeawayPriceIfNonZero ==
    \A k \in CreatedLines :
        (cur.order.order_type = "takeaway" /\ NoOverride(cur.req.items[k]))
        => LET chosen == IF Truthy(MenuItemOf(k).takeaway_price)
                         THEN MenuItemOf(k).takeaway_price ELSE MenuItemOf(k).price
           IN  /\ cur.lines[k].unit_price = chosen
               /\ (cur.lines[k].unit_price = MenuItemOf(k).beach_bar_price
                   => MenuItemOf(k).beach_bar_price = chosen)

\* a takeaway order at the beach bar, of an item with three different prices
C4_Witness ==
    /\ Created
    /\ cur.order.order_type = "takeaway"
    /\ cur.order.location_id = 2
    /\ cur.req.items[1].unit_price = NoneV
    /\ cur.lines[1].menu_item_id = 1
    /\ cur.lines[1].unit_price = PyDec(100)

ResolvedLocationName == Locations[cur.order.location_id]

\* C5 as stated: a dine-in line without override is priced at the beach-bar
\* price if that column is not NULL, else at the base price, when the order's
\* location is beach_bar, and at the base price at any other location.
C5_BeachPriceIfSet ==
    \A k \in CreatedLines :
        (cur.order.order_type = "dine_in" /\ NoOverride(cur.req.items[k]))
        => cur.lines[k].unit_price =
              IF ResolvedLocationName = "beach_bar" /\ MenuItemOf(k).beach_bar_price # NoneV
              THEN MenuItemOf(k).beach_bar_price ELSE MenuItemOf(k).price

\* C5 amended: as C5, with the beach-bar price used if it is set and not zero.
C5_BeachPriceIfNonZero ==
    \A k \in CreatedLines :
        (cur.order.order_type = "dine_in" /\ NoOverride(cur.req.items[k]))
        => cur.lines[k].unit_price =
              IF ResolvedLocationName = "beach_bar" /\ Truthy(MenuItemOf(k).beach_bar_price)
              THEN MenuItemOf(k).beach_bar_price ELSE MenuItemOf(k).price

\* a dine-in order at the beach bar, of an item with three different prices
C5_Witness ==
    /\ Created
    /\ cur.order.order_type = "dine_in"
    /\ ResolvedLocationName = "beach_bar"
    /\ cur.req.items[1].unit_price = NoneV
    /\ cur.lines[1].menu_item_id = 1
    /\ cur.lines[1].unit_price = PyDec(300)

\* C6: a line whose manual price override is present and not the empty
\* string is persisted with unit_price equal to that override.
C6_OverrideVerbatim ==
    \A k \in CreatedLines :
        ~NoOverride(cur.req.items[k])
        => cur.lines[k].unit_price.v = cur.req.items[k].unit_price.v


\* ------------------------------------------------------------- order status
Terminal == {"served", "cancelled"}

\* the edges of the order state machine
Edge(old, new) ==
    \/ <<old, new>> \in {<<"pending", "confirmed">>, <<"confirmed", "preparing">>,
                         <<"preparing", "ready">>, <<"ready", "served">>}
    \/ (old \notin Terminal /\ new = "cancelled")

\* C7: served and cancelled are terminal: no step changes the status of an
\* order that is served or cancelled.
C7_TerminalStatusKept ==
    [][\A o \in 1..Len(orders) :
          orders[o].status \in Terminal => orders'[o].status = orders[o].status]_vars

\* C8: every status change that update_order_status commits is an edge of
\* the state machine, and a request for any other change is rejected.
C8_OnlyEdgesCommitted ==
    [][/\ \A o \in 1..Len(orders) :
             orders'[o].status # orders[o].status
             => Edge(orders[o].status, orders'[o].status)
       /\ (cur.pc = "idle" /\ cur'.op = "update_order_status" /\ cur'.code = 200)
             => Edge(cur'.old_status, cur'.req.status)]_vars

\* C9: add_order_item and remove_order_item on an order whose status is not
\* pending or confirmed are rejected by the permission check or the status
\* check, and the step leaves the order, its lines and its totals unchanged.
C9_NoLineChangeOutsideWindow ==
    [][(/\ cur.pc = "idle"
        /\ cur'.op \in {"add_order_item", "remove_order_item"}
        /\ cur'.req.order_id \in 1..Len(orders)
        /\ orders[cur'.req.order_id].status \notin {"pending", "confirmed"})
        => (/\ cur'.code \in {400, 403}
            /\ cur'.err \in {"Insufficient permissions",
                             "Cannot add items to this order",
                             "Cannot remove items from this order"}
            /\ orders' = orders
            /\ order_items' = order_items)]_vars

\* an addition to a served order has been refused
C9_Witness ==
    /\ cur.op = "add_order_item" /\ cur.pc = "done"
    /\ cur.code = 400 /\ cur.err = "Cannot add items to this order"
    /\ cur.req.order_id \in 1..Len(orders)
    /\ orders[cur.req.order_id].status = "served"
    /\ Len(ItemsOf(cur.req.order_id)) = 1

\* ------------------------------------------------------------- print dispatch
\* a print_order request for an existing order, with a body, has been answered
Printed ==
    /\ cur.op = "print_order" /\ cur.pc = "done"
    /\ cur.req.order_id \in 1..Len(orders)
    /\ cur.req.has_body

RequestedPrinters ==
    ActivePrinters(IF cur.req.printer_type = Absent THEN "all" ELSE cur.req.printer_type)

\* the printer fails delivery: it is not virtual and its socket fails
FailsDelivery(p) == ~IsVirtual(p.ip_address) /\ p.id \in cur.req.down

NumFailed(results) == Len(SelectSeq(results, LAMBDA r : ~r.success))

NumFailing(ps) == Len(SelectSeq(ps, FailsDelivery))

\* C10: print_order over N active matching printers of which K fail delivery
\* returns 200 and a report of N entries, one per printer in order, the K
\* failing ones marked failure with a message and the N-K others success.
C10_ReportPerPrinter ==
    Printed =>
        /\ cur.code = 200
        /\ Len(cur.results) = Len(RequestedPrinters)
        /\ \A j \in 1..Len(RequestedPrinters) :
              j <= Len(cur.results) =>
                /\ cur.results[j].printer = RequestedPrinters[j].id
                /\ cur.results[j].success = ~FailsDelivery(RequestedPrinters[j])
                /\ cur.results[j].message # ""
        /\ NumFailed(cur.results) = NumFailing(RequestedPrinters)
        /\ Len(cur.results) - NumFailed(cur.results)
              = Len(RequestedPrinters) - NumFailing(RequestedPrinters)

\* three printers, the first unreachable: one failure, then two successes
C10_Witness ==
    /\ Printed
    /\ cur.code = 200
    /\ Len(RequestedPrinters) = 3
    /\ Len(cur.results) = 3
    /\ ~cur.results[1].success
    /\ cur.results[2].success
    /\ cur.results[3].success

\* ------------------------------------------------------------- order numbers
\* C11: whatever the number of create_order requests handled at the same
\* time, no two persisted orders have the same order_number.
C11_OrderNumbersUnique ==
    \A i, j \in 1..Len(orders) :
        i # j => orders[i].order_number # orders[j].order_number

\* two orders are persisted; one worker's request drew a number already
\* persisted and has been refused, another worker's request has just committed
C11_Witness ==
    /\ Len(orders) = 2
    /\ \E w, v \in Workers :
          /\ sessions[w].pc = "done" /\ sessions[w].code = 500
          /\ sessions[w].err = "IntegrityError"
          /\ sessions[v].pc = "done" /\ sessions[v].code = 201

\* ------------------------------------------------------------- totals after line changes
\* an add_order_item or remove_order_item request has passed every check of
\* its handler, and the database has not failed
LineChangeAccepted ==
    /\ cur.op \in {"add_order_item", "remove_order_item"} /\ cur.pc = "done"
    /\ cur.code \notin {400, 403, 404}
    /\ cur.err # "database error"

\* C12: after a create_order, add_order_item or remove_order_item call that
\* the handler accepts, the call has succeeded and the order's subtotal and
\* total_amount both equal the sum of total_price over the lines it has.
C12_TotalsRecomputed ==
    /\ Created =>
          /\ orders[cur.order.id].subtotal.v = SumTotalPrice(ItemsOf(cur.order.id))
          /\ orders[cur.order.id].total_amount.v = SumTotalPrice(ItemsOf(cur.order.id))
    /\ LineChangeAccepted =>
          /\ cur.code \in {200, 201}
          /\ orders[cur.req.order_id].subtotal.v
                = SumTotalPrice(ItemsOf(cur.req.order_id))
          /\ orders[cur.req.order_id].total_amount.v
                = SumTotalPrice(ItemsOf(cur.req.order_id))

\* ------------------------------------------------------------- the table of an order
\* C13: every persisted order has a table if and only if its order_type is
\* dine_in.
C13_TableIffDineIn ==
    \A k \in 1..Len(orders) :
        (orders[k].table_id # 0) <=> (orders[k].order_type = "dine_in")

\* ------------------------------------------------------------- ownership
OwnershipChecked == {"update_order_status", "add_order_item", "remove_order_item"}

\* the user a request's token was issued for
Requester(req) == ToInt(req.ident).v

\* C14: update_order_status, add_order_item and remove_order_item on an
\* existing order refuse (403) a waiter who is not the order's assigned staff
\* member and leave orders and lines as they are; they never answer 403 to an
\* admin or a manager.
C14_NonOwnerWaiterRejected ==
    [][(/\ cur.pc = "idle" /\ cur'.op \in OwnershipChecked
        /\ cur'.req.order_id \in 1..Len(orders))
        => LET u == Requester(cur'.req)
               order == orders[cur'.req.order_id]
           IN  /\ (Users[u].role = "waiter" /\ u # order.user_id)
                     => (/\ cur'.code = 403
                         /\ orders' = orders
                         /\ order_items' = order_items)
               /\ Users[u].role \in {"admin", "manager"} => cur'.code # 403]_vars

\* waiter 2 asked for a status change of an order assigned to waiter 1
C14_Witness ==
    /\ cur.op = "update_order_status" /\ cur.pc = "done"
    /\ cur.req.order_id \in 1..Len(orders)
    /\ Requester(cur.req) = 2
    /\ orders[cur.req.order_id].user_id = 1
    /\ cur.req.status = "confirmed"
    /\ cur.code = 403
    /\ orders[cur.req.order_id].status = "pending"

\* C15: the waiter who is the assigned staff member of an order is never
\* answered 403 by update_order_status, add_order_item or remove_order_item
\* on that order.
C15_OwnerPasses ==
    (/\ cur.op \in OwnershipChecked /\ cur.pc = "done"
     /\ cur.req.order_id \in 1..Len(orders)
     /\ Users[Requester(cur.req)].role = "waiter"
     /\ orders[cur.req.order_id].user_id = Requester(cur.req))
    => cur.code # 403

\* ------------------------------------------------------------- events
\* C16: a create_order answered 201 has made exactly one broadcast, a
\* new_order event for the new order to the room restaurant, and none named
\* order_status_changed; a create_order answered with an error has made none.
C16_OneNewOrderEvent ==
    (cur.op = "create_order" /\ cur.pc = "done")
    => IF cur.code = 201
       THEN /\ Len(cur.events) = 1
            /\ cur.events[1].name = "new_order"
            /\ cur.events[1].room = "restaurant"
            /\ cur.events[1].order_id = cur.order.id
            /\ \A k \in 1..Len(cur.events) : cur.events[k].name # "order_status_changed"
       ELSE cur.events = <<>>

\* an order of two lines has been created and its event delivered
C16_Witness ==
    /\ Created
    /\ Len(cur.lines) = 2
    /\ Len(cur.events) = 1
    /\ cur.events[1].name = "new_order"
    /\ cur.events[1].delivered

\* a create_order or update_order_status request whose commit went through
Committed ==
    /\ cur.pc = "done"
    /\ \/ cur.op = "create_order" /\ cur.order # NoRow
       \/ cur.op = "update_order_status" /\ cur.order # NoRow

\* C17: when the broadcast or the print step that follows the commit of
\* create_order or update_order_status fails, the order, its lines and its
\* status stay persisted and the request is still answered with success.
C17_FailureAfterCommitKeepsSuccess ==
    Committed =>
        /\ cur.code \in {200, 201}
        /\ cur.order.id \in 1..Len(orders)
        /\ orders[cur.order.id] = cur.order
        /\ cur.op = "create_order" => ItemsOf(cur.order.id) = cur.lines

\* ------------------------------------------------------------- availability
\* the availability rule of an order type
AvailabilityRule(menu_item, order_type) ==
    /\ order_type = "takeaway"
          => (menu_item.is_available_takeaway \/ menu_item.is_takeaway_only)
    /\ order_type = "dine_in"
          => (menu_item.is_available /\ ~menu_item.is_takeaway_only)

\* the order type a request asks for
RequestedType(req) == IF req.order_type = Absent THEN "dine_in" ELSE req.order_type

\* the line names a menu item that breaks the rule of the order type
BreaksRule(item_data, order_type) ==
    /\ Truthy(item_data.menu_item_id)
    /\ item_data.menu_item_id.v \in DOMAIN MenuItems
    /\ ~AvailabilityRule(MenuItems[item_data.menu_item_id.v], order_type)

NotAvailableErrors ==
    {"Menu item is not available for takeaway", "Menu item is not available for dine-in"}

\* C18: every line of an order that create_order persists satisfies the
\* availability rule of the order's type; a request with a line that breaks
\* the rule is refused and adds no row; the availability error names the item
\* of the line that breaks the rule.
C18_AvailabilityEnforced ==
    [][(cur'.op = "create_order" /\ cur'.pc = "done" /\ cur.pc # "done")
        => LET items == cur'.req.items
               order_type == RequestedType(cur'.req)
           IN  /\ cur'.order # NoRow
                     => \A k \in 1..Len(cur'.lines) :
                            AvailabilityRule(MenuItems[cur'.lines[k].menu_item_id],
                                             cur'.order.order_type)
               /\ (\E k \in 1..Len(items) : BreaksRule(items[k], order_type))
                     => (/\ cur'.code \in {400, 401, 404, 500}
                         /\ cur'.order = NoRow
                         /\ orders' = orders
                         /\ order_items' = order_items)
               /\ cur'.err \in NotAvailableErrors
                     => (/\ cur'.code = 400
                         /\ cur'.named = items[cur'.i].menu_item_id.v
                         /\ order_type \in {"takeaway", "dine_in"}
                               => BreaksRule(items[cur'.i], order_type))]_vars

\* a dine-in request whose second line is a takeaway-only item is refused
\* with the error that names the item, after its first line was accepted
C18_Witness ==
    /\ cur.op = "create_order" /\ cur.pc = "done"
    /\ RequestedType(cur.req) = "dine_in"
    /\ cur.code = 400 /\ cur.err = "Menu item is not available for dine-in"
    /\ cur.i = 2 /\ cur.named = 6
    /\ MenuItems[6].is_available /\ MenuItems[6].is_takeaway_only
    /\ orders = <<>> /\ order_items = <<>>

\* ------------------------------------------------------------- quantities and order types
\* C19: every persisted OrderItem has a quantity of at least 1.
C19_QuantityPositive ==
    \A k \in 1..Len(order_items) : order_items[k].quantity >= 1

order_types == {"dine_in", "takeaway", "delivery"}

\* C20: every persisted order has one of the three order types.
C20_OrderTypeValid ==
    \A k \in 1..Len(orders) : orders[k].order_type \in order_types

\* ------------------------------------------------------------- status values
\* C21: update_order_status with a status that is not one of the six is
\* refused (400 for a requester who passes the permission check on an existing
\* order), changes no order, status and updated_at included, and emits no
\* event; so the status of every persisted order is one of the six.
C21_InvalidStatusRejected ==
    [][/\ (/\ cur.pc = "idle" /\ cur'.op = "update_order_status"
           /\ cur'.req.status \notin
                 {"pending", "confirmed", "preparing", "ready", "served", "cancelled"})
          => (/\ cur'.code \in {400, 403, 404}
              /\ (/\ cur'.req.order_id \in 1..Len(orders)
                  /\ Users[ToInt(cur'.req.ident).v].role # "waiter") => cur'.code = 400
              /\ orders' = orders
              /\ cur'.events = <<>>)
       /\ \A k \in 1..Len(orders') :
             orders'[k].status \in
                 {"pending", "confirmed", "preparing", "ready", "served", "cancelled"}]_vars

\* an admin asks for the status 'paid' on a confirmed order, at a time later
\* than the order's last change
C21_Witness ==
    /\ cur.op = "update_order_status" /\ cur.pc = "done"
    /\ cur.req.status = "paid"
    /\ cur.code = 400 /\ cur.err = "Invalid status"
    /\ cur.req.order_id \in 1..Len(orders)
    /\ orders[cur.req.order_id].status = "confirmed"
    /\ orders[cur.req.order_id].updated_at < cur.req.now

\* the addresses that name no host
virtual_sentinels == {"", "console", "stdout", "virtual"}

\* the print_output events of a printer, in the order they were emitted
PrintOutputsOf(printer_id) ==
    SelectSeq(cur.events, LAMBDA e : e.name = "print_output" /\ e.printer = printer_id)

\* the report entry of the j-th requested printer says it was printed directly,
\* without a socket
PrintedDirectly(j) ==
    /\ j <= Len(cur.results)
    /\ cur.results[j].printer = RequestedPrinters[j].id
    /\ cur.results[j].success
    /\ cur.results[j].message = "Printed to console (direct)"

C23_NoWriteBeforeLinesValidated ==
    (cur.op = "create_order" /\ cur.pc = "items" /\ cur.order # NoRow) =>
        cur.i > Len(cur.req.items)

\* C24: every update_order_status answered 200 sets updated_at to the time of
\* the call and emits exactly one order_status_changed event, whose old_status
\* is the status the order had before the call and whose new_status is the one
\* it has after; a call that is refused, or whose commit fails, emits none.
C24_StampAndOneEvent ==
    [][(cur.pc = "idle" /\ cur'.op = "update_order_status") =>
          IF cur'.code = 200
          THEN /\ cur'.req.order_id \in 1..Len(orders)
               /\ orders'[cur'.req.order_id].updated_at = cur'.req.now
               /\ Len(cur'.events) = 1
               /\ cur'.events[1].name = "order_status_changed"
               /\ cur'.events[1].order_id = cur'.req.order_id
               /\ cur'.events[1].old_status = orders[cur'.req.order_id].status
               /\ cur'.events[1].new_status = orders'[cur'.req.order_id].status
          ELSE cur'.events = <<>> /\ orders' = orders]_vars

\* a pending order created at time 1 has been set to preparing at time 2
C24_Witness ==
    /\ cur.op = "update_order_status" /\ cur.pc = "done" /\ cur.code = 200
    /\ cur.req.now = 2
    /\ orders[cur.req.order_id].created_at = 1
    /\ orders[cur.req.order_id].updated_at = 2
    /\ orders[cur.req.order_id].status = "preparing"
    /\ Len(cur.events) = 1
    /\ cur.events[1].old_status = "pending"
    /\ cur.events[1].new_status = "preparing"

\* ------------------------------------------------------------- closed orders
\* the lines and the totals of a persisted order
LinesAndTotals(k) ==
    [lines |-> ItemsOf(k), subtotal |-> orders[k].subtotal,
     tax_amount |-> orders[k].tax_amount, discount_amount |-> orders[k].discount_amount,
     total_amount |-> orders[k].total_amount]

\* the order has the status preparing, ready, served or cancelled
Closed(k) ==
    k \in 1..Len(orders) /\ orders[k].status \in {"preparing", "ready", "served", "cancelled"}

\* an add_order_item or remove_order_item call on the order has just succeeded
LinesChanged(k) ==
    /\ cur.op \in {"add_order_item", "remove_order_item"} /\ cur.pc = "done"
    /\ cur.code \in {200, 201}
    /\ cur.req.order_id = k

\* C25: once an order has reached preparing, ready, served or cancelled, its
\* lines and its totals never change again, whatever update_order_status,
\* add_order_item and remove_order_item calls follow: the lines and totals of a
\* persisted order change only in a successful add_order_item or
\* remove_order_item call on it, and no such call succeeds on an order at any
\* time after it was closed.
C25_ClosedOrderImmutable ==
    /\ [][\A k \in 1..Len(orders) :
             LinesAndTotals(k)' # LinesAndTotals(k) => LinesChanged(k)']_vars
    /\ \A k \in 1..MaxOrders : [](Closed(k) => [](~LinesChanged(k)))

\* a closed order, changed once since its creation, gets an add_order_item call
\* from an admin for an available item: it is refused and the order keeps its
\* single line
C25_Witness ==
    /\ cur.op = "add_order_item" /\ cur.pc = "done"
    /\ cur.code = 400 /\ cur.err = "Cannot add items to this order"
    /\ cur.req.order_id \in 1..Len(orders)
    /\ Closed(cur.req.order_id)
    /\ orders[cur.req.order_id].updated_at > orders[cur.req.order_id].created_at
    /\ Len(ItemsOf(cur.req.order_id)) = 1

\* ------------------------------------------------------------- line changes
\* the requester may change the order: an admin, a manager, or the waiter who
\* created it
MayChange(req) ==
    \/ Users[ToInt(req.ident).v].role \in {"admin", "manager"}
    \/ orders[req.order_id].user_id = ToInt(req.ident).v

\* the order of the request exists and is pending or confirmed
InWindow(req) ==
    /\ req.order_id \in 1..Len(orders)
    /\ orders[req.order_id].status \in {"pending", "confirmed"}

\* an add_order_item request that names an existing available item and a
\* positive quantity
ValidAdd(req) ==
    /\ InWindow(req) /\ MayChange(req)
    /\ req.item.menu_item_id.t = "int"
    /\ req.item.menu_item_id.v \in DOMAIN MenuItems
    /\ MenuItems[req.item.menu_item_id.v].is_available
    /\ req.item.quantity.t = "int" /\ req.item.quantity.v > 0

\* a remove_order_item request that names a line of the order
ValidRemove(req) ==
    /\ InWindow(req) /\ MayChange(req)
    /\ \E n \in 1..Len(ItemsOf(req.order_id)) : ItemsOf(req.order_id)[n].id = req.item_id

\* C26: add_order_item by a permitted requester on a pending or confirmed
\* order, with an existing available item and a positive quantity, succeeds,
\* persists exactly one new line on the order and raises the order's total by
\* the line's total_price; remove_order_item of an existing line in the same
\* window succeeds, deletes exactly that line and lowers the total by its
\* total_price. (The database is assumed not to fail.)
C26_LineChangesSucceed ==
    [][\A k \in 1..Len(orders) :
        /\ (/\ cur.pc = "idle" /\ cur'.op = "add_order_item" /\ cur'.req.order_id = k
            /\ ValidAdd(cur'.req) /\ cur'.err # "database error")
           => (/\ cur'.code = 201
               /\ Len(ItemsOf(k)') = Len(ItemsOf(k)) + 1
               /\ orders'[k].total_amount.v
                     = orders[k].total_amount.v + cur'.lines[1].total_price.v)
        /\ (/\ cur.pc = "idle" /\ cur'.op = "remove_order_item" /\ cur'.req.order_id = k
            /\ ValidRemove(cur'.req) /\ cur'.err # "database error")
           => (/\ cur'.code = 200
               /\ Len(ItemsOf(k)') = Len(ItemsOf(k)) - 1
               /\ \A n \in 1..Len(ItemsOf(k)') :
                     ItemsOf(k)'[n].id # cur'.req.item_id)]_vars

\* ------------------------------------------------------------- line totals and tax
\* C27: every persisted OrderItem, written by create_order or by
\* add_order_item, has total_price = unit_price * quantity.
C27_LineTotalIsUnitTimesQuantity ==
    \A n \in 1..Len(order_items) :
        order_items[n].total_price.v = order_items[n].unit_price.v * order_items[n].quantity

\* the tax of the order is a tenth of its subtotal, to the nearest cent
TaxOfSubtotal(o) ==
    LET diff == 100 * o.tax_amount.v - TaxRatePercent * o.subtotal.v
    IN  diff \in (0 - 50 * Scale)..(50 * Scale)

\* C28: after every create_order, add_order_item and remove_order_item call
\* that the handler accepts, the call has succeeded and the order's tax_amount
\* is its subtotal multiplied by the tax rate of 10% (to the nearest cent).
C28_TaxIsRateOfSubtotal ==
    /\ Created => TaxOfSubtotal(orders[cur.order.id])
    /\ LineChangeAccepted =>
          /\ cur.code \in {200, 201}
          /\ TaxOfSubtotal(orders[cur.req.order_id])

TableFails(req) ==
    /\ req.order_type \in {Absent, "dine_in"}
    /\ (~Truthy(req.table_id) \/ req.table_id.v \notin Tables)

\* the request names a location that does not exist
LocationFails(req) ==
    Truthy(req.location_id) /\ req.location_id.v \notin DOMAIN Locations

\* C30: create_order reports the first failure in the order items, table,
\* location, lines: a request without items gets the items error; otherwise a
\* dine-in request without a valid table gets a table error, even if its
\* location_id names no location; otherwise a request with such a location_id
\* gets the location error, even if a line is invalid.
C30_FirstFailureInOrder ==
    (cur.op = "create_order" /\ cur.pc = "done" /\ cur.err # "database error") =>
        IF Len(cur.req.items) = 0
        THEN cur.err = "Order items are required"
        ELSE IF TableFails(cur.req)
        THEN cur.err \in {"Table ID is required for dine-in orders", "Table not found"}
        ELSE LocationFails(cur.req) => cur.err = "Invalid location ID"

\* ------------------------------------------------------------- location of an order
\* C31: in create_order a location_id that names no location rejects the
\* request and a valid one is stored; without one a dine-in order gets the
\* requester's assigned location and a takeaway or delivery order the default
\* shop location; and the location name used for pricing is the name of the
\* location stored on the order.
C31_LocationResolved ==
    (cur.op = "create_order" /\ cur.pc = "done" /\ cur.err # "database error"
        /\ cur.err # "IntegrityError") =>
        LET req == cur.req
            given == req.location_id # NoneV
            requester == Users[ToInt(req.ident).v]
        IN  /\ (given /\ req.location_id.v \notin DOMAIN locations) =>
                  (cur.code = 400 /\ cur.err = "Invalid location ID")
            /\ Created =>
                  /\ given => orders[cur.order.id].location_id = req.location_id.v
                  /\ (~given /\ req.order_type = "dine_in" /\ requester.location_id # 0) =>
                        orders[cur.order.id].location_id = requester.location_id
                  /\ (~given /\ req.order_type \in {"takeaway", "delivery"}) =>
                        orders[cur.order.id].location_id = DefaultLocationId
                  /\ orders[cur.order.id].location_id \in DOMAIN locations
                  /\ cur.location_name = locations[orders[cur.order.id].location_id]

\* ------------------------------------------------------------- order number collisions
\* C32: a create_order request whose generated order number is already taken
\* is retried with a fresh number and succeeds; it is never answered with the
\* failure of the unique constraint.
C32_CollisionRetried ==
    \A w \in Workers :
        (sessions[w].op = "create_order" /\ sessions[w].pc = "done") =>
            sessions[w].err # "IntegrityError"

\* ------------------------------------------------------------- documents
\* the ids of the order's lines whose category goes to the destination, in order
LinesFor(order_id, destination) ==
    LET chosen == SelectSeq(ItemsOf(order_id),
                            LAMBDA l : MenuItems[l.menu_item_id].printer_destination
                                          = destination)
    IN  [n \in 1..Len(chosen) |-> chosen[n].id]

\* C33: the document for a kitchen printer lists each line of the order whose
\* category destination is kitchen exactly once, in order, and no other line;
\* likewise the bar document for the bar lines; the receipt lists every line
\* of the order exactly once.
C33_DocumentListsLinesOnce ==
    Printed =>
        \A n \in 1..Len(cur.events) :
            cur.events[n].name = "print_output" =>
                cur.events[n].content =
                    IF cur.events[n].printer_type \in {"kitchen", "bar"}
                    THEN LinesFor(cur.req.order_id, cur.events[n].printer_type)
                    ELSE [k \in 1..Len(ItemsOf(cur.req.order_id)) |->
                             ItemsOf(cur.req.order_id)[k].id]

\* ------------------------------------------------------------- inactive printers
\* the printer is one the request may print on: active and of the requested type
MayPrintOn(k) ==
    /\ k \in 1..Len(printers)
    /\ printers[k].is_active
    /\ \/ cur.req.printer_type \in {Absent, "all"}
       \/ printers[k].printer_type = cur.req.printer_type

\* C34: print_order delivers only to printers that are active and of the
\* requested destination: every entry of its report and every document it emits
\* belongs to such a printer, so a printer deactivated by delete_printer_config
\* or by an update gets no document and no entry, and a request for one
\* destination reaches no printer of another.
C34_OnlyActiveMatchingPrinters ==
    Printed =>
        /\ \A j \in 1..Len(cur.results) : MayPrintOn(cur.results[j].printer)
        /\ \A n \in 1..Len(cur.events) : MayPrintOn(cur.events[n].printer)

\* a kitchen request printed on a kitchen printer while another kitchen printer
\* is inactive and a receipt printer is active
C34_Witness ==
    /\ Printed /\ cur.req.printer_type = "kitchen"
    /\ Len(cur.results) = 1 /\ cur.results[1].success
    /\ \E i, j \in 1..Len(printers) :
          /\ printers[i].printer_type = "kitchen" /\ ~printers[i].is_active
          /\ printers[j].printer_type = "receipt" /\ printers[j].is_active
          /\ cur.results[1].printer \notin {i, j}

\* ------------------------------------------------------------- line changes at the same time
\* C35: two add_order_item / remove_order_item requests handled at the same
\* time on one order both commit, and once both have committed the order's
\* total_amount is the sum of total_price over its persisted lines: a request
\* that passed the checks fails only when the database does, and no update of
\* the total is lost.
C35_NoLostUpdate ==
    /\ \A w \in Workers :
          (/\ sessions[w].op \in {"add_order_item", "remove_order_item"}
           /\ sessions[w].pc = "done"
           /\ sessions[w].code = 500) => sessions[w].err = "database error"
    /\ (\A w \in Workers : sessions[w].pc # "write") =>
          \A k \in 1..Len(orders) :
              orders[k].total_amount.v = SumTotalPrice(ItemsOf(k))

C37_AddedLineAsAtCreation ==
    (/\ cur.op = "add_order_item" /\ cur.pc = "done"
     /\ cur.req.order_id \in 1..Len(orders)
     /\ cur.code # 403
     /\ CanModifyItems(orders[cur.req.order_id].status)
     /\ Truthy(cur.req.item.menu_item_id) /\ Truthy(cur.req.item.quantity)
     /\ cur.req.item.menu_item_id.v \in DOMAIN MenuItems) =>
        LET order == orders[cur.req.order_id]
            menu_item == MenuItems[cur.req.item.menu_item_id.v]
        IN  /\ (cur.code = 400 /\ cur.err = "Menu item is not available")
                    <=> ~AvailableFor(menu_item, order.order_type)
            /\ cur.code = 201 =>
                    cur.lines[1].unit_price.v =
                        Quantize(ResolvePrice(menu_item, order.order_type,
                                              locations[order.location_id])).v

\* ------------------------------------------------------------- table assignments
\* the active assignments of a table
ActiveAssignments(t) ==
    {k \in 1..Len(table_assignments) :
        table_assignments[k].table_id = t /\ table_assignments[k].is_active}

\* C38: after any sequence of assign_table and unassign_table requests handled
\* one after the other, every table has at most one active assignment; and the
\* step that commits a new assignment for a table that has an active one
\* leaves that one inactive.
C38_OneActiveAssignment ==
    /\ [](\A t \in Tables : Cardinality(ActiveAssignments(t)) <= 1)
    /\ [][Len(table_assignments') > Len(table_assignments) =>
            \A k \in 1..Len(table_assignments) :
                table_assignments[k].table_id
                        = table_assignments'[Len(table_assignments')].table_id
                    => ~table_assignments'[k].is_active]_vars

\* a table that was assigned has just been assigned again: the earlier
\* assignment is inactive and the new one is the table's active assignment
C38_Witness ==
    /\ cur.op = "assign_table" /\ cur.pc = "done" /\ cur.code = 201
    /\ \E k \in 1..(Len(table_assignments) - 1) :
          /\ table_assignments[k].table_id = cur.req.table_id.v
          /\ table_assignments[k].user_id # cur.req.user_id.v
          /\ ~table_assignments[k].is_active
          /\ \A j \in (k + 1)..(Len(table_assignments) - 1) :
                table_assignments[j].table_id # cur.req.table_id.v
    /\ ActiveAssignments(cur.req.table_id.v) = {Len(table_assignments)}

\* ------------------------------------------------------------- login lockout
\* the account is locked at the given time
LockedAt(now) == account.locked_until # NoTime /\ account.locked_until > now

\* the password has just been checked, by the method alone or by a login that
\* committed
PasswordChecked ==
    /\ cur.pc = "idle"
    /\ cur'.op \in {"check_password", "login"}
    /\ cur'.err # "database error"

\* C39: a failed check on an unlocked account adds one to
\* failed_login_attempts and returns False, and the fifth failure in a row
\* sets locked_until thirty minutes ahead; while the account is locked the
\* check returns False for every password, the right one included, and changes
\* neither the counter nor the lock; a successful check on an unlocked account
\* sets failed_login_attempts to 0 and clears locked_until.
C39_Lockout ==
    [][PasswordChecked =>
         LET now == cur'.req.now
             password_ok == cur'.req.password_ok
         IN  /\ LockedAt(now) =>
                    /\ cur'.code = 401
                    /\ account'.failed_login_attempts = account.failed_login_attempts
                    /\ account'.locked_until = account.locked_until
             /\ (~LockedAt(now) /\ ~password_ok) =>
                    /\ cur'.code = 401
                    /\ account'.failed_login_attempts = account.failed_login_attempts + 1
                    /\ account.failed_login_attempts = LockThreshold - 1
                           => account'.locked_until = now + LockMinutes
                    /\ account.failed_login_attempts < LockThreshold - 1
                           => account'.locked_until = account.locked_until
             /\ (~LockedAt(now) /\ password_ok) =>
                    /\ cur'.code = 200
                    /\ account'.failed_login_attempts = 0
                    /\ account'.locked_until = NoTime]_vars

\* the right password has just been refused on the account that five failures
\* locked, and the counter still stands at five
C39_Witness ==
    /\ cur.op = "check_password" /\ cur.pc = "done" /\ cur.code = 401
    /\ cur.req.password_ok
    /\ LockedAt(cur.req.now)
    /\ account.failed_login_attempts = LockThreshold
    /\ account.locked_until = cur.req.now + LockMinutes - 1

====
